---- MODULE Spec2Model ----
(***************************************************************************)
(* A model of the job-market analyzer: the SQLite job store                *)
(* (src/etl/database.py), the Chroma vector store (src/rag/vector_store.py)*)
(* the analytics engine (src/analytics/analyzer.py) and the JobPosting     *)
(* data model (src/data_collection/models.py).                             *)
(*                                                                         *)
(* Text that the code inspects character by character (titles, companies,  *)
(* descriptions, skills, LIKE patterns) is a sequence of one-character     *)
(* strings.  A nullable number is <<>> (None / NULL) or <<v>>.             *)
(***************************************************************************)
EXTENDS Integers, Sequences, FiniteSets, Bags, TLC

VARIABLES
    jobs,        \* table jobs: id -> row (id is the PRIMARY KEY)
    job_skills,  \* table job_skills: a bag of [job_id, skill] rows
    collection,  \* the Chroma collection "job_postings": id -> [document, metadata]
    last         \* the last call: its name, arguments and what it returned or raised

vars == <<jobs, job_skills, collection, last>>

----------------------------------------------------------------------------
(* Python built-ins the code relies on.                                    *)

None == <<>>

UpperChars == <<"A", "B", "C", "D", "E", "F", "G", "H", "I", "J", "K", "L", "M",
                "N", "O", "P", "Q", "R", "S", "T", "U", "V", "W", "X", "Y", "Z">>

LowerChars == <<"a", "b", "c", "d", "e", "f", "g", "h", "i", "j", "k", "l", "m",
                "n", "o", "p", "q", "r", "s", "t", "u", "v", "w", "x", "y", "z">>

\* the lowercase letter of each uppercase letter
upper_to_lower ==
    [c \in {UpperChars[i] : i \in DOMAIN UpperChars} |->
        LowerChars[CHOOSE i \in DOMAIN UpperChars : UpperChars[i] = c]]

\* one character of str.lower()
lower_char(c) == IF c \in DOMAIN upper_to_lower THEN upper_to_lower[c] ELSE c

\* str.lower()
lower(s) == [i \in 1..Len(s) |-> lower_char(s[i])]

\* `sub in s` on two strings
contains(s, sub) ==
    \E i \in 0..(Len(s) - Len(sub)) : SubSeq(s, i + 1, i + Len(sub)) = sub

\* `x in xs` on a list
in_list(x, xs) == \E i \in DOMAIN xs : xs[i] = x

\* [f(x) for x in xs] with f = str.lower
lower_all(xs) == [i \in 1..Len(xs) |-> lower(xs[i])]

\* xs[:n] for n >= 0
take(xs, n) == SubSeq(xs, 1, IF n < Len(xs) THEN n ELSE Len(xs))

\* the orderings of a finite set
Perms(S) ==
    {f \in [1..Cardinality(S) -> S] :
        \A i, j \in 1..Cardinality(S) : f[i] = f[j] => i = j}

----------------------------------------------------------------------------
(* JobPosting (src/data_collection/models.py).                             *)

\* the fields of a JobPosting the modelled operations read
JobPosting(id, title, company, location, description, smin, smax, level, remote, skills, at) ==
    [id |-> id, title |-> title, company |-> company, location |-> location,
     description |-> description, salary_min |-> smin, salary_max |-> smax,
     experience_level |-> level, remote |-> remote, skills |-> skills,
     scraped_at |-> at]

\* common_skills of extract_skills_from_description
common_skills ==
    <<
      <<"p", "y", "t", "h", "o", "n">>,
      <<"j", "a", "v", "a", "s", "c", "r", "i", "p", "t">>,
      <<"j", "a", "v", "a">>,
      <<"c", "+", "+">>,
      <<"s", "q", "l">>,
      <<"a", "w", "s">>,
      <<"a", "z", "u", "r", "e">>,
      <<"d", "o", "c", "k", "e", "r">>,
      <<"k", "u", "b", "e", "r", "n", "e", "t", "e", "s">>,
      <<"r", "e", "a", "c", "t">>,
      <<"n", "o", "d", "e", ".", "j", "s">>,
      <<"t", "y", "p", "e", "s", "c", "r", "i", "p", "t">>,
      <<"m", "a", "c", "h", "i", "n", "e", " ", "l", "e", "a", "r", "n", "i", "n", "g">>,
      <<"d", "e", "e", "p", " ", "l", "e", "a", "r", "n", "i", "n", "g">>,
      <<"n", "l", "p">>,
      <<"c", "o", "m", "p", "u", "t", "e", "r", " ", "v", "i", "s", "i", "o", "n">>,
      <<"t", "e", "n", "s", "o", "r", "f", "l", "o", "w">>,
      <<"p", "y", "t", "o", "r", "c", "h">>,
      <<"p", "a", "n", "d", "a", "s">>,
      <<"n", "u", "m", "p", "y">>,
      <<"s", "c", "i", "k", "i", "t", "-", "l", "e", "a", "r", "n">>,
      <<"g", "i", "t">>,
      <<"l", "i", "n", "u", "x">>,
      <<"a", "g", "i", "l", "e">>,
      <<"s", "c", "r", "u", "m">>,
      <<"a", "p", "i">>,
      <<"r", "e", "s", "t">>,
      <<"g", "r", "a", "p", "h", "q", "l">>,
      <<"p", "o", "s", "t", "g", "r", "e", "s", "q", "l">>,
      <<"m", "o", "n", "g", "o", "d", "b">>,
      <<"r", "e", "d", "i", "s">>,
      <<"e", "l", "a", "s", "t", "i", "c", "s", "e", "a", "r", "c", "h">>,
      <<"s", "p", "a", "r", "k">>,
      <<"a", "i", "r", "f", "l", "o", "w">>,
      <<"k", "a", "f", "k", "a">>,
      <<"c", "i", "/", "c", "d">>,
      <<"j", "e", "n", "k", "i", "n", "s">>,
      <<"t", "e", "r", "r", "a", "f", "o", "r", "m">>,
      <<"l", "a", "n", "g", "c", "h", "a", "i", "n">>,
      <<"l", "l", "m">>,
      <<"r", "a", "g">>,
      <<"o", "p", "e", "n", "a", "i">>,
      <<"a", "n", "t", "h", "r", "o", "p", "i", "c">>,
      <<"g", "p", "t">>,
      <<"d", "a", "t", "a", " ", "e", "n", "g", "i", "n", "e", "e", "r", "i", "n", "g">>,
      <<"d", "a", "t", "a", " ", "s", "c", "i", "e", "n", "c", "e">>,
      <<"a", "n", "a", "l", "y", "t", "i", "c", "s">>,
      <<"e", "t", "l">>,
      <<"p", "o", "w", "e", "r", " ", "b", "i">>,
      <<"t", "a", "b", "l", "e", "a", "u">>,
      <<"e", "x", "c", "e", "l">>,
      <<"s", "t", "a", "t", "i", "s", "t", "i", "c", "s">>,
      <<"a", "/", "b", " ", "t", "e", "s", "t", "i", "n", "g">>
    >>

\* [s for s in common_skills if s in self.description], without the .lower()
found_skills_case_sensitive(description) ==
    {common_skills[i] : i \in {k \in DOMAIN common_skills :
                                  contains(description, common_skills[k])}}

\* set([s for s in common_skills if s in desc_lower])
found_skills(description) ==
    LET desc_lower == lower(description)
    IN  {common_skills[i] : i \in {k \in DOMAIN common_skills :
                                      contains(desc_lower, common_skills[k])}}

\* extract_skills_from_description(): self.skills = list(set(found)); the order
\* in which list() walks the set is open
extract_skills_from_description ==
    /\ last.op = "JobPosting"
    /\ \E skills \in Perms(found_skills(last.job.description)) :
          last' = [op |-> "extract_skills_from_description",
                   job |-> [last.job EXCEPT !.skills = skills],
                   ret |-> skills]
    /\ UNCHANGED <<jobs, job_skills, collection>>

----------------------------------------------------------------------------
(* Inputs.                                                                 *)

python == <<"p", "y", "t", "h", "o", "n">>
Python == <<"P", "y", "t", "h", "o", "n">>
sql    == <<"s", "q", "l">>
aws    == <<"a", "w", "s">>
java   == <<"j", "a", "v", "a">>

Acme   == <<"A", "c", "m", "e">>
Dev    == <<"D", "e", "v">>
NYC    == <<"N", "Y", "C">>

\* ids as __post_init__ generates them: opaque strings
JobIds == {"a1", "b2", "c3"}

\* skills lists as a constructor argument may give them (no de-duplication there)
SkillLists ==
    {<<>>, <<python, sql>>, <<python, aws>>, <<java>>, <<Python, python>>}

\* postings that differ in id and skills
SkillPostings ==
    {JobPosting(id, Dev, Acme, NYC, <<>>, None, None, "Mid", FALSE, sk, 1) :
        id \in JobIds, sk \in SkillLists}

\* largest top_n a caller passes
MaxTopN == 2

\* (salary_min, salary_max) pairs; each is optional on its own
SalaryPairs ==
    {<<None, None>>, <<(<<100000>>), (<<150000>>)>>, <<(<<140000>>), (<<180000>>)>>,
     <<(<<100001>>), (<<150000>>)>>, <<(<<100000>>), None>>}

StatsIds == {"a1", "b2"}

\* postings that differ in id, experience level, remote flag and salary
StatsPostings ==
    {JobPosting(id, Dev, Acme, NYC, <<>>, sal[1], sal[2], level, remote, <<>>, 1) :
        id \in StatsIds, sal \in SalaryPairs, level \in {"Entry", "Senior"},
        remote \in BOOLEAN}

\* phrases a job title is made of
TitlePhrases ==
    {<<"D", "a", "t", "a", " ", "E", "n", "g", "i", "n", "e", "e", "r">>,
     <<"D", "A", "T", "A", " ", "E", "N", "G", "I", "N", "E", "E", "R">>,
     <<"M", "L", " ", "E", "n", "g", "i", "n", "e", "e", "r">>,
     <<"M", "a", "c", "h", "i", "n", "e", " ", "L", "e", "a", "r", "n", "i", "n", "g">>,
     <<"A", "I", " ", "E", "n", "g", "i", "n", "e", "e", "r">>,
     <<"D", "a", "t", "a", " ", "S", "c", "i", "e", "n", "t", "i", "s", "t">>,
     <<"B", "a", "c", "k", "e", "n", "d">>,
     <<"F", "u", "l", "l", " ", "S", "t", "a", "c", "k">>,
     <<"F", "u", "l", "l", "s", "t", "a", "c", "k">>,
     <<"D", "e", "v", "O", "p", "s">>,
     <<"S", "R", "E">>,
     <<"A", "n", "a", "l", "y", "t", "i", "c", "s">>,
     <<"D", "e", "v", "e", "l", "o", "p", "e", "r">>}

\* a leading seniority word, or none
TitlePrefixes == {<<>>, <<"S", "e", "n", "i", "o", "r", " ">>}

\* the most phrases in a title
MaxTitleParts == 2

\* " / ".join(parts)
RECURSIVE join_slash(_)
join_slash(parts) ==
    IF Len(parts) = 0 THEN <<>>
    ELSE IF Len(parts) = 1 THEN parts[1]
    ELSE parts[1] \o <<" ", "/", " ">> \o join_slash(Tail(parts))

\* the sequences over S of length 1..n
SeqsUpTo(S, n) == UNION {[1..k -> S] : k \in 1..n}

\* titles such as "Senior ML Engineer / Data Engineer"
Titles ==
    {pre \o join_slash(parts) :
        pre \in TitlePrefixes, parts \in SeqsUpTo(TitlePhrases, MaxTitleParts)}

\* words a description names as requirements
DescriptionWords ==
    {<<"P", "y", "t", "h", "o", "n">>,
     <<"A", "W", "S">>,
     <<"K", "u", "b", "e", "r", "n", "e", "t", "e", "s">>,
     <<"J", "a", "v", "a", "S", "c", "r", "i", "p", "t">>,
     <<"S", "Q", "L">>,
     <<"G", "o">>}

\* the most requirements in a description
MaxDescWords == 3

\* "a, b and c"
RECURSIVE join_and(_)
join_and(words) ==
    IF Len(words) = 0 THEN <<>>
    ELSE IF Len(words) = 1 THEN words[1]
    ELSE IF Len(words) = 2 THEN words[1] \o <<" ", "a", "n", "d", " ">> \o words[2]
    ELSE words[1] \o <<",", " ">> \o join_and(Tail(words))

\* descriptions such as "Experience with Python, AWS and Kubernetes"
Descriptions ==
    {<<"E", "x", "p", "e", "r", "i", "e", "n", "c", "e", " ", "w", "i", "t", "h", " ">> \o join_and(words) :
        words \in SeqsUpTo(DescriptionWords, MaxDescWords)} \cup {<<>>}

\* postings that differ in their description
DescribedPostings ==
    {JobPosting("a1", Dev, Acme, NYC, d, None, None, "Mid", FALSE, <<>>, 1) :
        d \in Descriptions}

\* JOB_TEMPLATES["Data Engineer"]["skills"]
data_engineer_skills ==
    <<python, sql, aws,
      <<"s", "p", "a", "r", "k">>,
      <<"a", "i", "r", "f", "l", "o", "w">>,
      <<"d", "o", "c", "k", "e", "r">>,
      <<"k", "a", "f", "k", "a">>,
      <<"e", "t", "l">>>>

\* JOB_TEMPLATES["Data Engineer"]["description"].format(...)
data_engineer_description(years, cloud, tool1, tool2) ==
    <<"\n", " ", " ", " ", " ", " ", " ", " ", " ", " ", " ", " ", " ", "J",
      "o", "i", "n", " ", "o", "u", "r", " ", "d", "a", "t", "a", " ", "t",
      "e", "a", "m", " ", "t", "o", " ", "b", "u", "i", "l", "d", " ", "s",
      "c", "a", "l", "a", "b", "l", "e", " ", "d", "a", "t", "a", " ", "p",
      "i", "p", "e", "l", "i", "n", "e", "s", "!", "\n", " ", " ", " ", " ",
      " ", " ", " ", " ", " ", " ", " ", " ", "\n", " ", " ", " ", " ", " ",
      " ", " ", " ", " ", " ", " ", " ", "R", "e", "s", "p", "o", "n", "s",
      "i", "b", "i", "l", "i", "t", "i", "e", "s", ":", "\n", " ", " ", " ",
      " ", " ", " ", " ", " ", " ", " ", " ", " ", "-", " ", "D", "e", "s",
      "i", "g", "n", " ", "a", "n", "d", " ", "i", "m", "p", "l", "e", "m",
      "e", "n", "t", " ", "E", "T", "L", " ", "p", "i", "p", "e", "l", "i",
      "n", "e", "s", " ", "p", "r", "o", "c", "e", "s", "s", "i", "n", "g",
      " ", "t", "e", "r", "a", "b", "y", "t", "e", "s", " ", "o", "f", " ",
      "d", "a", "t", "a", "\n", " ", " ", " ", " ", " ", " ", " ", " ", " ",
      " ", " ", " ", "-", " ", "B", "u", "i", "l", "d", " ", "r", "e", "a",
      "l", "-", "t", "i", "m", "e", " ", "s", "t", "r", "e", "a", "m", "i",
      "n", "g", " ", "s", "y", "s", "t", "e", "m", "s", " ", "u", "s", "i",
      "n", "g", " ", "K", "a", "f", "k", "a", "\n", " ", " ", " ", " ", " ",
      " ", " ", " ", " ", " ", " ", " ", "-", " ", "O", "p", "t", "i", "m",
      "i", "z", "e", " ", "d", "a", "t", "a", " ", "w", "a", "r", "e", "h",
      "o", "u", "s", "e", " ", "p", "e", "r", "f", "o", "r", "m", "a", "n",
      "c", "e", "\n", " ", " ", " ", " ", " ", " ", " ", " ", " ", " ", " ",
      " ", "-", " ", "C", "o", "l", "l", "a", "b", "o", "r", "a", "t", "e",
      " ", "w", "i", "t", "h", " ", "M", "L", " ", "e", "n", "g", "i", "n",
      "e", "e", "r", "s", " ", "o", "n", " ", "f", "e", "a", "t", "u", "r",
      "e", " ", "p", "i", "p", "e", "l", "i", "n", "e", "s", "\n", " ", " ",
      " ", " ", " ", " ", " ", " ", " ", " ", " ", " ", "\n", " ", " ", " ",
      " ", " ", " ", " ", " ", " ", " ", " ", " ", "R", "e", "q", "u", "i",
      "r", "e", "m", "e", "n", "t", "s", ":", "\n", " ", " ", " ", " ", " ",
      " ", " ", " ", " ", " ", " ", " ", "-", " ">>
    \o years
    \o <<"+", " ", "y", "e", "a", "r", "s", " ", "o", "f", " ", "e", "x", "p",
      "e", "r", "i", "e", "n", "c", "e", " ", "i", "n", " ", "d", "a", "t",
      "a", " ", "e", "n", "g", "i", "n", "e", "e", "r", "i", "n", "g", "\n",
      " ", " ", " ", " ", " ", " ", " ", " ", " ", " ", " ", " ", "-", " ",
      "S", "t", "r", "o", "n", "g", " ", "P", "y", "t", "h", "o", "n", " ",
      "a", "n", "d", " ", "S", "Q", "L", " ", "s", "k", "i", "l", "l", "s",
      "\n", " ", " ", " ", " ", " ", " ", " ", " ", " ", " ", " ", " ", "-",
      " ", "E", "x", "p", "e", "r", "i", "e", "n", "c", "e", " ", "w", "i",
      "t", "h", " ">>
    \o cloud
    \o <<" ", "c", "l", "o", "u", "d", " ", "s", "e", "r", "v", "i", "c", "e",
      "s", "\n", " ", " ", " ", " ", " ", " ", " ", " ", " ", " ", " ", " ",
      "-", " ", "K", "n", "o", "w", "l", "e", "d", "g", "e", " ", "o", "f",
      " ">>
    \o tool1
    \o <<" ", "a", "n", "d", " ">>
    \o tool2
    \o <<"\n", " ", " ", " ", " ", " ", " ", " ", " ", " ", " ", " ", " ", "-",
      " ", "U", "n", "d", "e", "r", "s", "t", "a", "n", "d", "i", "n", "g",
      " ", "o", "f", " ", "d", "a", "t", "a", " ", "m", "o", "d", "e", "l",
      "i", "n", "g", " ", "a", "n", "d", " ", "w", "a", "r", "e", "h", "o",
      "u", "s", "i", "n", "g", "\n", " ", " ", " ", " ", " ", " ", " ", " ",
      " ", " ", " ", " ">>

\* SampleDataCollector.CLOUDS
CLOUDS == {<<"A", "W", "S">>, <<"G", "C", "P">>, <<"A", "z", "u", "r", "e">>}

\* two of SampleDataCollector.TOOLS
TOOLS == {<<"F", "l", "i", "n", "k">>, <<"d", "b", "t">>}

\* SampleDataCollector._generate_job up to its call of
\* extract_skills_from_description: a "Mid" Data Engineer posting (3 years,
\* salary factors 1.0), its skills a copy of the template's
generate_job(cloud, tool1, tool2) ==
    JobPosting("a1", <<"D", "a", "t", "a", " ", "E", "n", "g", "i", "n", "e", "e", "r">>,
               Acme, NYC, data_engineer_description(<<"3">>, cloud, tool1, tool2),
               <<120000>>, <<200000>>, "Mid", FALSE, data_engineer_skills, 1)

\* ArbeitnowCollector._parse_job up to its call of
\* extract_skills_from_description: job.skills = [t.lower() for t in tags]
tagged_job(description, tags) ==
    JobPosting("a1", Dev, Acme, NYC, description, None, None, "Mid", FALSE,
               lower_all(tags), 1)

\* tags of an upstream posting
TagLists == {<<>>, <<java>>, <<Python, sql>>}

\* records as the two collectors hold them when they call
\* extract_skills_from_description
CollectedPostings ==
    {generate_job(cloud, tool1, tool2) : cloud \in CLOUDS, tool1 \in TOOLS, tool2 \in TOOLS}
    \cup {tagged_job(d, tags) : d \in Descriptions, tags \in TagLists}

\* postings for the vector store: they differ in id and salary_min; the level
\* and the remote flag go with the id
IndexLevel == [a1 |-> "Senior", b2 |-> "Entry", c3 |-> "Senior"]

IndexRemote == [a1 |-> TRUE, b2 |-> TRUE, c3 |-> FALSE]

IndexSalaries == {<<None, None>>, <<(<<140000>>), (<<180000>>)>>}

IndexPostings ==
    {JobPosting(id, Dev, Acme, NYC, <<>>, sal[1], sal[2], IndexLevel[id], IndexRemote[id], <<python, sql>>, 1) :
        id \in JobIds, sal \in IndexSalaries}

\* postings for find_similar_jobs: "a1" and "b2" have the same text when their
\* salaries agree, "c3" has another experience level
SimilarLevel == [a1 |-> "Senior", b2 |-> "Senior", c3 |-> "Entry"]
SimilarPostings ==
    {JobPosting(id, Dev, Acme, NYC, <<>>, sal[1], sal[2], SimilarLevel[id], TRUE, <<python, sql>>, 1) :
        id \in JobIds, sal \in IndexSalaries}

\* postings for get_role_comparison: two titles, with and without a skill
Ops == <<"O", "p", "s">>
ComparePostings ==
    {JobPosting(id, title, Acme, NYC, <<>>, <<140000>>, <<180000>>, "Mid", remote, skills, 1) :
        id \in StatsIds, title \in {Dev, Ops}, remote \in BOOLEAN,
        skills \in {<<>>, <<python>>}}

\* roles asked about: two that occur in titles, written in lower case, and one
\* that occurs in none
Roles == {<<"d", "e", "v">>, <<"o", "p", "s">>, <<"q", "a">>}

\* postings for get_skill_salary_correlation: one record with a lower salary
\* and one skill, four with two skills, and a sixth whose salary bounds may be
\* missing
CorrelationIds == {"a1", "b2", "c3", "d4", "e5", "f6"}
CorrelationPostings ==
    {JobPosting("a1", Dev, Acme, NYC, <<>>, <<100000>>, <<150000>>, "Mid", FALSE, <<python>>, 1)}
    \cup {JobPosting(id, Dev, Acme, NYC, <<>>, <<140000>>, <<180000>>, "Mid", FALSE, <<sql, python>>, 1) :
             id \in {"b2", "c3", "d4", "e5"}}
    \cup {JobPosting("f6", Dev, Acme, NYC, <<>>, sal[1], sal[2], "Mid", FALSE, <<sql, python>>, 1) :
             sal \in {<<(<<140000>>), (<<180000>>)>>, <<(<<140000>>), None>>, <<None, None>>}}

\* postings for add_jobs lists: one per id, and a second one with the id "a1"
AddPostings ==
    {job \in IndexPostings :
        job.salary_min = (<<140000>>) \/ (job.id = "a1" /\ job.salary_min = None)}

\* the longest list passed to add_jobs
MaxJobsLen == 2

\* the lists passed to add_jobs
JobLists == {<<>>} \cup SeqsUpTo(AddPostings, MaxJobsLen)

\* batch_size of add_jobs when the caller gives none
DefaultBatchSize == 100

\* the batch sizes add_jobs is called with
BatchSizes == {1, DefaultBatchSize}

\* the largest n_results a caller passes
MaxNResults == 1

\* distances the index reports, in thousandths: collection.query puts no bound
\* on them (a squared L2 distance can exceed 1, an inner-product distance
\* 1 - <q, d> can be negative)
Distances == {-500, 250, 1500}

\* salary floors a caller passes
SalaryFloors == {None, <<0>>, <<120000>>}

\* postings for search_jobs: they differ in id, company and remote flag; the
\* level, the salary, the skills and the scrape time go with the id
Apex == <<"A", "p", "e", "x">>

SearchSalary == [a1 |-> <<(<<140000>>), (<<180000>>)>>, b2 |-> <<None, None>>]

SearchSkills == [a1 |-> <<Python, sql>>, b2 |-> <<java>>]

SearchScrapedAt == [a1 |-> 1, b2 |-> 2]

SearchPostings ==
    {JobPosting(id, Dev, co, NYC, <<>>, SearchSalary[id][1], SearchSalary[id][2], IndexLevel[id], re, SearchSkills[id], SearchScrapedAt[id]) :
        id \in StatsIds, co \in {Acme, Apex}, re \in BOOLEAN}

\* limit of search_jobs when the caller gives none
DefaultLimit == 100

\* the arguments search_jobs is called with
SearchQueries == {None, <<<<"a", "c">>>>}

SearchCompanies == {None, <<<<"A", "C", "M", "E">>>>, <<<<"a", "_", "e">>>>}

SearchLocations == {None, <<<<"n", "y">>>>}

SearchSkillLists == {None, <<(<<Python>>)>>, <<(<<python>>)>>}

SearchLimits == {1, DefaultLimit}

\* the most filters a caller supplies in one search
MaxFilters == 2

\* the filters a search supplies
supplied(c) ==
    {f \in {"query", "company", "location", "skills", "experience_level", "min_salary"} :
        c[f] # None}
    \cup (IF c.remote_only THEN {"remote_only"} ELSE {})

SearchCalls ==
    {c \in [query : SearchQueries, company : SearchCompanies,
            location : SearchLocations, skills : SearchSkillLists,
            experience_level : {None, <<"Senior">>}, remote_only : BOOLEAN,
            min_salary : {None, <<120000>>}, limit : SearchLimits] :
        Cardinality(supplied(c)) <= MaxFilters}

\* postings for insert_many: two that share the id "a1" and differ in their
\* skills, and one with the id "b2"
ManyPostings ==
    {JobPosting("a1", Dev, Acme, NYC, <<>>, None, None, "Mid", FALSE, <<python>>, 1),
     JobPosting("a1", Dev, Acme, NYC, <<>>, None, None, "Mid", FALSE, <<>>, 1),
     JobPosting("b2", Dev, Acme, NYC, <<>>, None, None, "Mid", FALSE, <<sql>>, 1)}

\* the longest list passed to insert_many
MaxManyLen == 2

\* the lists passed to insert_many
ManyLists == {<<>>} \cup SeqsUpTo(ManyPostings, MaxManyLen)

\* postings for the integrity of the two tables: one with two skills, one
\* with one
IntegrityPostings ==
    {JobPosting("a1", Dev, Acme, NYC, <<>>, None, None, "Mid", FALSE, <<python, sql>>, 1),
     JobPosting("b2", Dev, Acme, NYC, <<>>, None, None, "Mid", FALSE, <<sql>>, 1)}
IntegrityLists == {<<>>} \cup SeqsUpTo(IntegrityPostings, MaxManyLen)

\* postings written to both stores
BothPostings == {job \in AddPostings : job.id \in StatsIds /\ job.salary_min # None}

\* the lists of them passed to add_jobs
BothLists == {<<>>} \cup SeqsUpTo(BothPostings, MaxJobsLen)

----------------------------------------------------------------------------
(* JobDatabase (src/etl/database.py).                                      *)

\* the tuple of the INSERT with an empty list in the skills column
job_to_row_without_skills(job) ==
    [id |-> job.id, title |-> job.title, company |-> job.company,
     location |-> job.location, description |-> job.description,
     salary_min |-> job.salary_min, salary_max |-> job.salary_max,
     experience_level |-> job.experience_level,
     remote |-> IF job.remote THEN 1 ELSE 0,
     skills |-> <<>>, scraped_at |-> job.scraped_at]

\* the tuple insert_job binds to the INSERT: int(job.remote), json.dumps(skills)
job_to_row(job) ==
    [id |-> job.id, title |-> job.title, company |-> job.company,
     location |-> job.location, description |-> job.description,
     salary_min |-> job.salary_min, salary_max |-> job.salary_max,
     experience_level |-> job.experience_level,
     remote |-> IF job.remote THEN 1 ELSE 0,
     skills |-> job.skills, scraped_at |-> job.scraped_at]

\* cursor.rowcount of INSERT OR IGNORE INTO jobs: 0 when the id is present
insert_or_ignore_rowcount(id) == IF id \in DOMAIN jobs THEN 0 ELSE 1

\* insert_job without the `if cursor.rowcount > 0` guard of the skill rows
skills_to_write_unguarded(job, rowcount) == job.skills

\* the skills insert_job writes to job_skills after the main INSERT
skills_to_write(job, rowcount) == IF rowcount > 0 THEN job.skills ELSE <<>>

\* the rows INSERT INTO job_skills (job_id, skill) VALUES (?, skill.lower()) adds
RECURSIVE skill_rows(_, _)
skill_rows(job_id, skills) ==
    IF skills = <<>> THEN EmptyBag
    ELSE SetToBag({[job_id |-> job_id, skill |-> lower(Head(skills))]})
         (+) skill_rows(job_id, Tail(skills))

\* the number of statements insert_job runs: INSERT, one per skill, commit
statement_count(job, rowcount) == 1 + Len(skills_to_write(job, rowcount)) + 1

\* insert_job with no except clause: the exception reaches the caller
insert_job_reraise(exc) == [ret |-> None, raises |-> exc]

\* the exception clause of insert_job: what the caller gets for an exception
\* raised inside the try block
insert_job_except(exc) ==
    IF exc = "sqlite3.Error"
    THEN [ret |-> <<FALSE>>, raises |-> "none"]
    ELSE [ret |-> None, raises |-> exc]

\* the number of job_skills rows of one job
skill_row_count(id) ==
    BagCardinality([r \in {x \in BagToSet(job_skills) : x.job_id = id}
                        |-> job_skills[r]])

\* the exceptions a statement of insert_job can raise: the storage layer's, and
\* one of Python such as `skill.lower()` on a skill that is no string
Exceptions == {"sqlite3.Error", "AttributeError"}

\* insert_job on a connection that commits each statement: a failing insert
\* leaves the main row written
insert_job_on_autocommit(store, job, fail, exc) ==
    LET rowcount1 == IF job.id \in DOMAIN store.jobs THEN 0 ELSE 1
        outcome   == IF fail = 0
                     THEN [ret |-> <<rowcount1 > 0>>, raises |-> "none"]
                     ELSE insert_job_except(exc)
    IN  [jobs       |-> IF (fail = 0 \/ fail > 1) /\ rowcount1 > 0
                        THEN [i \in DOMAIN store.jobs \cup {job.id} |->
                                 IF i = job.id THEN job_to_row(job) ELSE store.jobs[i]]
                        ELSE store.jobs,
         job_skills |-> IF fail = 0
                        THEN store.job_skills
                             (+) skill_rows(job.id, skills_to_write(job, rowcount1))
                        ELSE store.job_skills,
         ret        |-> outcome.ret,
         raises     |-> outcome.raises]

\* insert_job(job) run on the tables of `store`.  `fail` is the statement at
\* which `exc` is raised: 0 for none, 1 for the INSERT of the main row, then one
\* per skill row, then the commit.  A connection closed without commit rolls
\* back, so the tables change only when no statement raises.
insert_job_on(store, job, fail, exc) ==
    LET rowcount1 == IF job.id \in DOMAIN store.jobs THEN 0 ELSE 1
        written   == skills_to_write(job, rowcount1)
        \* cursor.rowcount after the last execute
        rowcount  == IF written = <<>> THEN rowcount1 ELSE 1
        outcome   == IF fail = 0
                     THEN [ret |-> <<rowcount > 0>>, raises |-> "none"]
                     ELSE insert_job_except(exc)
    IN  [jobs       |-> IF fail = 0 /\ rowcount1 > 0
                        THEN [i \in DOMAIN store.jobs \cup {job.id} |->
                                 IF i = job.id THEN job_to_row(job) ELSE store.jobs[i]]
                        ELSE store.jobs,
         job_skills |-> IF fail = 0
                        THEN store.job_skills (+) skill_rows(job.id, written)
                        ELSE store.job_skills,
         ret        |-> outcome.ret,
         raises     |-> outcome.raises]

\* insert_job on a connection that keeps what was written before the error
insert_job_commit_on_error(job, fail) ==
    LET r == insert_job_on_autocommit([jobs |-> jobs, job_skills |-> job_skills],
                                      job, fail, "sqlite3.Error")
    IN  /\ fail \in 0..statement_count(job, insert_or_ignore_rowcount(job.id))
        /\ jobs' = r.jobs
        /\ job_skills' = r.job_skills
        /\ last' = [op |-> "insert_job", job |-> job, fail |-> fail,
                    ret |-> r.ret, raises |-> r.raises,
                    present |-> job.id \in DOMAIN jobs,
                    njobs |-> Cardinality(DOMAIN jobs),
                    nskills |-> skill_row_count(job.id)]
        /\ UNCHANGED collection

\* insert_job(job); `fail` is the statement at which the storage layer raises
\* sqlite3.Error (0: none).
insert_job(job, fail) ==
    LET r == insert_job_on([jobs |-> jobs, job_skills |-> job_skills], job, fail,
                           "sqlite3.Error")
    IN  /\ fail \in 0..statement_count(job, insert_or_ignore_rowcount(job.id))
        /\ jobs' = r.jobs
        /\ job_skills' = r.job_skills
        /\ last' = [op |-> "insert_job", job |-> job, fail |-> fail,
                    ret |-> r.ret, raises |-> r.raises,
                    present |-> job.id \in DOMAIN jobs,
                    njobs |-> Cardinality(DOMAIN jobs),
                    nskills |-> skill_row_count(job.id)]
        /\ UNCHANGED collection

\* the loop of insert_many from record k on; st holds the tables, the counters
\* and the ids for which insert_job returned True.  `fault` names the record
\* (at), the statement (fail) and the exception of the one fault of the call
\* (at = 0: none).
RECURSIVE insert_many_loop(_, _, _, _)
insert_many_loop(jobs_list, k, fault, st) ==
    IF k > Len(jobs_list) THEN st
    ELSE LET job == jobs_list[k]
             r   == insert_job_on([jobs |-> st.jobs, job_skills |-> st.job_skills],
                                  job, IF fault.at = k THEN fault.fail ELSE 0,
                                  fault.exc)
         IN  IF r.raises # "none"
             THEN [st EXCEPT !.raises = r.raises, !.stopped_at = k]
             ELSE insert_many_loop(jobs_list, k + 1, fault,
                      [st EXCEPT !.jobs = r.jobs, !.job_skills = r.job_skills,
                                 !.inserted = IF r.ret = <<TRUE>> THEN @ + 1 ELSE @,
                                 !.skipped = IF r.ret = <<TRUE>> THEN @ ELSE @ + 1,
                                 !.inserted_at = IF r.ret = <<TRUE>>
                                                 THEN @ \cup {k} ELSE @])

\* insert_many with a loop that starts at the second record
insert_many_on_from_second(store, jobs_list, fault) ==
    insert_many_loop(jobs_list, 2, fault,
        [jobs |-> store.jobs, job_skills |-> store.job_skills,
         inserted |-> 0, skipped |-> 0, inserted_at |-> {},
         raises |-> "none", stopped_at |-> 0])

\* the tables and the return value of insert_many(jobs_list) run on `store`
insert_many_on(store, jobs_list, fault) ==
    insert_many_loop(jobs_list, 1, fault,
        [jobs |-> store.jobs, job_skills |-> store.job_skills,
         inserted |-> 0, skipped |-> 0, inserted_at |-> {},
         raises |-> "none", stopped_at |-> 0])

\* the faults that can meet insert_many(jobs_list): none, or one exception at
\* one statement of one record
Faults(jobs_list) ==
    {[at |-> 0, fail |-> 0, exc |-> "none"]}
    \cup UNION {{[at |-> k, fail |-> f, exc |-> e] :
                    f \in 1..(Len(jobs_list[k].skills) + 2), e \in Exceptions} :
                k \in DOMAIN jobs_list}

\* insert_many(jobs_list): returns (inserted, skipped)
insert_many(jobs_list, fault) ==
    LET st == insert_many_on([jobs |-> jobs, job_skills |-> job_skills],
                             jobs_list, fault)
    IN  /\ fault.at # 0 =>
              fault.fail <= statement_count(jobs_list[fault.at],
                  IF \E k \in 1..(fault.at - 1) : jobs_list[k].id = jobs_list[fault.at].id
                  THEN 0 ELSE insert_or_ignore_rowcount(jobs_list[fault.at].id))
        /\ jobs' = st.jobs
        /\ job_skills' = st.job_skills
        /\ last' = [op |-> "insert_many", jobs |-> jobs_list, fault |-> fault,
                    inserted |-> st.inserted, skipped |-> st.skipped,
                    inserted_at |-> st.inserted_at,
                    raises |-> st.raises, stopped_at |-> st.stopped_at,
                    njobs |-> Cardinality(DOMAIN jobs),
                    before |-> [jobs |-> jobs, job_skills |-> job_skills]]
        /\ UNCHANGED collection

\* the id JobPosting.__post_init__ gives a record built by _row_to_job: a fresh
\* digest of title, company, location and a random uuid4
GeneratedId == "generated"

\* the SQL operator `text LIKE pattern`: % stands for any run of characters,
\* _ for any one character, letters compare without regard to case
RECURSIVE like(_, _)
like(text, pattern) ==
    IF pattern = <<>> THEN text = <<>>
    ELSE IF Head(pattern) = "%"
    THEN \E k \in 0..Len(text) : like(SubSeq(text, k + 1, Len(text)), Tail(pattern))
    ELSE /\ text # <<>>
         /\ Head(pattern) = "_" \/ lower_char(Head(pattern)) = lower_char(Head(text))
         /\ like(Tail(text), Tail(pattern))

\* column LIKE ? with the parameter f"%{x}%"
like_param(column, x) == like(column, <<"%">> \o x \o <<"%">>)

\* truth value of an optional text or list argument: None and the empty one are false
truthy(x) == x # None /\ x[1] # <<>>

\* truth value of an optional number: None and 0 are false
truthy_number(x) == x # None /\ x[1] # 0

\* the company condition of search_jobs: company LIKE ?
company_condition(row, company) ==
    truthy(company) => like_param(row.company, company[1])

\* the WHERE clause search_jobs builds: its conditions joined by AND
where_clause(row, query, company, location, experience_level, remote_only, min_salary) ==
    /\ truthy(query) =>
          \/ like_param(row.title, query[1])
          \/ like_param(row.description, query[1])
          \/ like_param(row.company, query[1])
    /\ company_condition(row, company)
    /\ truthy(location) => like_param(row.location, location[1])
    /\ (experience_level # None /\ experience_level # <<"">>) =>
          row.experience_level = experience_level[1]
    /\ remote_only => row.remote = 1
    /\ truthy_number(min_salary) =>
          (row.salary_min # None /\ row.salary_min[1] >= min_salary[1])

\* the orders ORDER BY scraped_at DESC can give the rows of ids
order_by_scraped_at_desc(ids) ==
    {o \in Perms(ids) :
        \A i, j \in DOMAIN o : i < j => jobs[o[i]].scraped_at >= jobs[o[j]].scraped_at}

\* _row_to_job(row): remote becomes a bool, the id column is dropped and the
\* JobPosting gets a generated id
row_to_job(row) ==
    [row EXCEPT !.remote = (row.remote = 1), !.id = GeneratedId]

\* the skills post-filter comparing the skills as they are written
has_any_skill_case_sensitive(job, skills) ==
    \E i \in DOMAIN skills : in_list(skills[i], job.skills)

\* the skills post-filter of search_jobs:
\* any(s in [sk.lower() for sk in job.skills] for s in skills_lower)
has_any_skill(job, skills) ==
    \E i \in DOMAIN skills : in_list(lower(skills[i]), lower_all(job.skills))

\* the list left by the skills post-filter
RECURSIVE filter_by_skills(_, _)
filter_by_skills(found, skills) ==
    IF found = <<>> THEN <<>>
    ELSE (IF has_any_skill(Head(found), skills) THEN <<Head(found)>> ELSE <<>>)
         \o filter_by_skills(Tail(found), skills)

\* search_jobs(query, company, location, skills, experience_level, remote_only, min_salary, limit)
search_jobs(query, company, location, skills, experience_level, remote_only, min_salary, limit) ==
    LET ids == {id \in DOMAIN jobs :
                   where_clause(jobs[id], query, company, location,
                                experience_level, remote_only, min_salary)}
    IN  /\ \E order \in order_by_scraped_at_desc(ids) :
              LET rows  == take(order, limit)
                  found == [k \in DOMAIN rows |-> row_to_job(jobs[rows[k]])]
              IN  last' = [op |-> "search_jobs", query |-> query, company |-> company,
                           location |-> location, skills |-> skills,
                           experience_level |-> experience_level,
                           remote_only |-> remote_only, min_salary |-> min_salary,
                           limit |-> limit, rows |-> rows,
                           ret |-> IF truthy(skills)
                                   THEN filter_by_skills(found, skills[1])
                                   ELSE found]
        /\ UNCHANGED <<jobs, job_skills, collection>>

\* get_job(job_id): the record of the row with that id, or None
get_job(job_id) ==
    /\ last' = [op |-> "get_job", job_id |-> job_id,
                ret |-> IF job_id \in DOMAIN jobs
                        THEN <<row_to_job(jobs[job_id])>> ELSE None]
    /\ UNCHANGED <<jobs, job_skills, collection>>

\* limit of get_all_jobs when the caller gives none
DefaultAllLimit == 1000

\* get_all_jobs(limit): search_jobs(limit=limit)
get_all_jobs(limit) == search_jobs(None, None, None, None, None, FALSE, None, limit)

\* get_all_jobs reading one row only
get_all_jobs_results_first_row(limit) ==
    {[k \in DOMAIN take(o, 1) |-> row_to_job(jobs[o[k]])] :
        o \in order_by_scraped_at_desc(DOMAIN jobs)}

\* the lists get_all_jobs(limit) can return: the rows in ORDER BY scraped_at
\* DESC order, cut at limit
get_all_jobs_results(limit) ==
    {[k \in DOMAIN take(o, limit) |-> row_to_job(jobs[o[k]])] :
        o \in order_by_scraped_at_desc(DOMAIN jobs)}

\* to_dict(): asdict(self), the id among the fields, scraped_at as its
\* isoformat() text
to_dict(job) == [job EXCEPT !.scraped_at = [isoformat |-> job.scraped_at]]

\* from_dict(data): scraped_at parsed by fromisoformat, data.pop('id'),
\* cls(**data); __post_init__ generates the id
from_dict(data) ==
    [data EXCEPT !.scraped_at = data.scraped_at.isoformat, !.id = GeneratedId]

\* JobPosting.from_dict(job.to_dict())
from_dict_of_to_dict(job) ==
    /\ last' = [op |-> "from_dict", job |-> job, ret |-> from_dict(to_dict(job))]
    /\ UNCHANGED <<jobs, job_skills, collection>>

\* clear_all with the DELETE FROM job_skills left out
clear_all_jobs_only ==
    /\ jobs' = << >>
    /\ last' = [op |-> "clear_all", cleared |-> DOMAIN jobs]
    /\ UNCHANGED <<job_skills, collection>>

\* clear_all(): DELETE FROM job_skills; DELETE FROM jobs; commit
clear_all ==
    /\ jobs' = << >>
    /\ job_skills' = EmptyBag
    /\ last' = [op |-> "clear_all", cleared |-> DOMAIN jobs]
    /\ UNCHANGED collection

\* the rows of job_skills with one skill (COUNT(*) of its GROUP BY group)
skill_count(skill) ==
    BagCardinality([r \in {x \in BagToSet(job_skills) : x.skill = skill}
                        |-> job_skills[r]])

\* LIMIT of the "Top skills" query of get_stats
TopSkillsLimit == 20

\* get_stats()['top_skills']: GROUP BY skill ORDER BY count DESC LIMIT 20, as the
\* ordered dict Python builds from it; rows of equal count come in any order
top_skills_results ==
    LET groups == {r.skill : r \in BagToSet(job_skills)}
        sorted == {p \in Perms(groups) :
                      \A i, j \in DOMAIN p :
                          i < j => skill_count(p[i]) >= skill_count(p[j])}
    IN  {take([i \in DOMAIN p |-> [skill |-> p[i], count |-> skill_count(p[i])]],
              TopSkillsLimit) : p \in sorted}

\* SUM(CASE WHEN remote = v THEN 1 ELSE 0 END) FROM jobs: NULL over no rows
sum_remote_is(v) ==
    IF DOMAIN jobs = {} THEN None
    ELSE <<Cardinality({i \in DOMAIN jobs : jobs[i].remote = v})>>

\* get_stats()['remote_distribution']
remote_distribution == [remote |-> sum_remote_is(1), on_site |-> sum_remote_is(0)]

\* the sum of f over the ids in S
RECURSIVE sum_over(_, _)
sum_over(f, S) ==
    IF S = {} THEN 0
    ELSE LET i == CHOOSE i \in S : TRUE IN f[i] + sum_over(f, S \ {i})

\* SQL AVG(column) over the rows S: NULL values are left out, NULL if none is left
sql_avg(column, S) ==
    LET T == {i \in S : column[i] # None}
    IN  IF T = {} THEN None
        ELSE <<[num |-> sum_over([i \in T |-> column[i][1]], T),
                den |-> Cardinality(T)]>>

\* Python round(x, 0) of the fraction x: to the nearest whole, halves to even
py_round(x) ==
    LET q == x.num \div x.den
        r == x.num % x.den
    IN  IF 2 * r < x.den THEN q
        ELSE IF 2 * r > x.den THEN q + 1
        ELSE IF q % 2 = 0 THEN q ELSE q + 1

\* the rows the "Average salary by experience" query groups for one level:
\* WHERE salary_min IS NOT NULL
salary_group(level) ==
    {i \in DOMAIN jobs :
        jobs[i].experience_level = level /\ jobs[i].salary_min # None}

\* get_stats()['salary_by_experience']; round() raises TypeError when given the
\* None that AVG(salary_max) is for a group without any salary_max
salary_by_experience ==
    LET levels  == {jobs[i].experience_level :
                       i \in {k \in DOMAIN jobs : jobs[k].salary_min # None}}
        smin    == [i \in DOMAIN jobs |-> jobs[i].salary_min]
        smax    == [i \in DOMAIN jobs |-> jobs[i].salary_max]
        avg_min == [l \in levels |-> sql_avg(smin, salary_group(l))]
        avg_max == [l \in levels |-> sql_avg(smax, salary_group(l))]
    IN  IF \E l \in levels : avg_max[l] = None
        THEN [raises |-> "TypeError"]
        ELSE [raises |-> "none",
              value |-> [l \in levels |-> [min |-> py_round(avg_min[l][1]),
                                           max |-> py_round(avg_max[l][1])]]]

\* get_stats(): every dict it can return (the order of tied skills is open), or
\* the exception it raises
get_stats_results ==
    IF salary_by_experience.raises # "none"
    THEN {[raises |-> salary_by_experience.raises]}
    ELSE {[raises |-> "none",
           total_jobs |-> Cardinality(DOMAIN jobs),
           top_skills |-> ts,
           remote_distribution |-> remote_distribution,
           salary_by_experience |-> salary_by_experience.value] :
              ts \in top_skills_results}

\* get_stats() as a caller sees it
get_stats ==
    /\ \E stats \in get_stats_results :
          last' = IF stats.raises # "none"
                  THEN [op |-> "get_stats", raises |-> stats.raises]
                  ELSE [op |-> "get_stats", raises |-> "none", ret |-> stats]
    /\ UNCHANGED <<jobs, job_skills, collection>>

----------------------------------------------------------------------------
(* JobDatabase._get_connection: the connection around each operation.     *)

\* the operations that run inside `with self._get_connection() as conn`
Calls ==
    {[name |-> n] : n \in {"_init_db", "get_stats", "get_all_jobs", "clear_all"}}
    \cup {[name |-> "insert_job", job |-> job] : job \in BothPostings}
    \cup {[name |-> "get_job", job_id |-> id] : id \in StatsIds}

\* the statements of a call inside the with block; an exception can be raised
\* at each (`fail` names it, 0: none)
call_statements(call) ==
    IF call.name = "insert_job"
    THEN statement_count(call.job, insert_or_ignore_rowcount(call.job.id))
    ELSE IF call.name = "clear_all" THEN 3
    ELSE IF call.name = "_init_db" THEN 7
    ELSE IF call.name = "get_stats" THEN 6
    ELSE 1

\* what the body of a call does to the tables and hands to its caller
call_outcomes(call, fail, exc) ==
    LET store == [jobs |-> jobs, job_skills |-> job_skills]
        kept  == [jobs |-> jobs, job_skills |-> job_skills,
                  ret |-> None, raises |-> IF fail = 0 THEN "none" ELSE exc]
    IN  IF call.name = "insert_job"
        THEN {insert_job_on(store, call.job, fail, exc)}
        ELSE IF fail # 0 THEN {kept}
        ELSE IF call.name = "clear_all"
        THEN {[kept EXCEPT !.jobs = << >>, !.job_skills = EmptyBag]}
        ELSE IF call.name = "get_job"
        THEN {[kept EXCEPT !.ret = IF call.job_id \in DOMAIN jobs
                                   THEN <<row_to_job(jobs[call.job_id])>> ELSE None]}
        ELSE IF call.name = "get_all_jobs"
        THEN {[kept EXCEPT !.ret = <<[k \in DOMAIN o |-> row_to_job(jobs[o[k]])]>>] :
                 o \in order_by_scraped_at_desc(DOMAIN jobs)}
        ELSE IF call.name = "get_stats"
        THEN {[kept EXCEPT !.ret = IF r.raises = "none" THEN <<r>> ELSE None,
                           !.raises = r.raises] : r \in get_stats_results}
        ELSE {kept}

\* _get_connection up to its yield: sqlite3.connect(self.db_path); when connect
\* raises there is no connection and the call raises
get_connection(call, connects) ==
    /\ last.op # "with"
    /\ last' = IF connects
               THEN [op |-> "with", call |-> call, at |-> "body",
                     open |-> last.open + 1]
               ELSE [op |-> call.name, call |-> call, raises |-> "sqlite3.Error",
                     ret |-> None, open |-> last.open]
    /\ UNCHANGED <<jobs, job_skills, collection>>

\* the body of the with block of the call in progress
with_body(exc) ==
    /\ last.op = "with"
    /\ last.at = "body"
    /\ \E fail \in 0..call_statements(last.call) :
          \E out \in call_outcomes(last.call, fail, exc) :
              /\ jobs' = out.jobs
              /\ job_skills' = out.job_skills
              /\ last' = [last EXCEPT !.at = "finally"] @@
                         [ret |-> out.ret, raises |-> out.raises]
    /\ UNCHANGED collection

\* a _get_connection that closes after the yield with no try/finally: an
\* exception in the body skips conn.close()
connections_closed_unless_raised(raises) == IF raises = "none" THEN 1 ELSE 0

\* the connections the `finally: conn.close()` of _get_connection closes
connections_closed(raises) == 1

\* _get_connection after its yield; then the call returns or raises
finally_close ==
    /\ last.op = "with"
    /\ last.at = "finally"
    /\ last' = [op |-> last.call.name, call |-> last.call, raises |-> last.raises,
                ret |-> last.ret,
                open |-> last.open - connections_closed(last.raises)]
    /\ UNCHANGED <<jobs, job_skills, collection>>

----------------------------------------------------------------------------
(* JobVectorStore (src/rag/vector_store.py).                               *)

\* `x or 0` on an optional number
or_zero(x) == IF x = None THEN 0 ELSE x[1]

\* ", ".join(items)
RECURSIVE join_comma(_)
join_comma(items) ==
    IF Len(items) = 0 THEN <<>>
    ELSE IF Len(items) = 1 THEN items[1]
    ELSE items[1] \o <<",", " ">> \o join_comma(Tail(items))

\* the number of skills add_jobs puts in the metadata
MetadataSkills == 10

\* the metadata add_jobs attaches to a document
job_metadata(job) ==
    [company |-> job.company, location |-> job.location,
     experience_level |-> job.experience_level,
     remote |-> IF job.remote THEN "True" ELSE "False",
     salary_min |-> or_zero(job.salary_min),
     salary_max |-> or_zero(job.salary_max),
     skills |-> join_comma(take(job.skills, MetadataSkills))]

\* _job_to_document(job): the lines of the document; the salary line is there
\* when both bounds are truthy
job_to_document(job) ==
    LET head   == <<[label |-> "Job Title", text |-> job.title],
                    [label |-> "Company", text |-> job.company],
                    [label |-> "Location", text |-> job.location],
                    [label |-> "Experience Level", text |-> job.experience_level]>>
        salary == IF or_zero(job.salary_min) # 0 /\ or_zero(job.salary_max) # 0
                  THEN <<[label |-> "Salary",
                          text |-> <<job.salary_min[1], job.salary_max[1]>>]>>
                  ELSE <<>>
        rest   == <<[label |-> "Remote", text |-> IF job.remote THEN "Yes" ELSE "No"],
                    [label |-> "Skills", text |-> join_comma(job.skills)],
                    [label |-> "Description", text |-> job.description]>>
    IN  head \o salary \o rest

\* add_jobs with the already-indexed ids left out of the test
is_duplicate_seen_only(job, existing_ids, seen_ids) == job.id \in seen_ids

\* the skip test of add_jobs: job.id in existing_ids or job.id in seen_ids
is_duplicate(job, existing_ids, seen_ids) ==
    job.id \in existing_ids \/ job.id \in seen_ids

\* the inner loop of add_jobs over one batch; acc holds seen_ids, skipped and the
\* jobs kept for collection.add
RECURSIVE add_jobs_batch(_, _, _)
add_jobs_batch(batch, existing_ids, acc) ==
    IF batch = <<>> THEN acc
    ELSE LET job == Head(batch)
         IN  IF is_duplicate(job, existing_ids, acc.seen_ids)
             THEN add_jobs_batch(Tail(batch), existing_ids,
                                 [acc EXCEPT !.skipped = @ + 1])
             ELSE add_jobs_batch(Tail(batch), existing_ids,
                                 [acc EXCEPT !.seen_ids = @ \cup {job.id},
                                             !.kept = Append(@, job)])

\* collection.add(documents, metadatas, ids) of the kept jobs of a batch
collection_add(coll, kept) ==
    [id \in DOMAIN coll \cup {kept[k].id : k \in DOMAIN kept} |->
        IF \E k \in DOMAIN kept : kept[k].id = id
        THEN LET job == kept[CHOOSE k \in DOMAIN kept : kept[k].id = id]
             IN  [document |-> job_to_document(job), metadata |-> job_metadata(job)]
        ELSE coll[id]]

\* the outer loop of add_jobs: for i in range(0, total, batch_size)
RECURSIVE add_jobs_loop(_, _, _, _)
add_jobs_loop(rest, batch_size, existing_ids, st) ==
    IF rest = <<>> THEN st
    ELSE LET batch == take(rest, batch_size)
             r     == add_jobs_batch(batch, existing_ids,
                          [seen_ids |-> st.seen_ids, skipped |-> st.skipped,
                           kept |-> <<>>])
         IN  add_jobs_loop(
                 SubSeq(rest, Len(batch) + 1, Len(rest)), batch_size, existing_ids,
                 [coll     |-> IF r.kept # <<>> THEN collection_add(st.coll, r.kept)
                               ELSE st.coll,
                  seen_ids |-> r.seen_ids,
                  added    |-> st.added + Len(r.kept),
                  skipped  |-> r.skipped,
                  handed   |-> st.handed \o [k \in DOMAIN r.kept |-> r.kept[k].id]])

\* add_jobs(jobs, batch_size): returns (added, skipped)
add_jobs(jobs_list, batch_size) ==
    LET existing_ids == DOMAIN collection
        st == add_jobs_loop(jobs_list, batch_size, existing_ids,
                  [coll |-> collection, seen_ids |-> {}, added |-> 0,
                   skipped |-> 0, handed |-> <<>>])
    IN  /\ collection' = st.coll
        /\ last' = [op |-> "add_jobs", jobs |-> jobs_list, batch_size |-> batch_size,
                    added |-> st.added, skipped |-> st.skipped,
                    handed |-> st.handed,
                    ids_before |-> existing_ids,
                    repeat |-> last.op = "add_jobs" /\ last.jobs = jobs_list]
        /\ UNCHANGED <<jobs, job_skills>>

\* JobVectorStore.clear(): delete_collection, create_collection
clear ==
    /\ collection' = << >>
    /\ last' = [op |-> "clear", cleared |-> DOMAIN collection]
    /\ UNCHANGED <<jobs, job_skills>>

\* "total_documents" of get_collection_stats(): self.collection.count()
total_documents == Cardinality(DOMAIN collection)

\* the `where` of search(): one {field: {"$eq": value}} per filter given
where_conditions(experience_level, remote_only) ==
    (IF experience_level # None /\ experience_level # <<"">>
     THEN <<[field |-> "experience_level", eq |-> experience_level[1]]>> ELSE <<>>)
    \o (IF remote_only THEN <<[field |-> "remote", eq |-> "True"]>> ELSE <<>>)

\* whether a document's metadata passes `where` (every condition, under $and)
where_matches(metadata, where) ==
    \A k \in DOMAIN where : metadata[where[k].field] = where[k].eq

\* what collection.query can return for n_results = n: the n nearest documents
\* passing `where` (all of them when fewer), nearest first, each with a distance;
\* the embedding of the query text decides the distances
query_results(n, where) ==
    LET ids == {id \in DOMAIN collection :
                   where_matches(collection[id].metadata, where)}
        len == IF n < Cardinality(ids) THEN n ELSE Cardinality(ids)
    IN  {r \in [1..len -> [id : ids, distance : Distances]] :
            \A i, j \in 1..len : i < j =>
                /\ r[i].id # r[j].id
                /\ r[i].distance <= r[j].distance}

\* search() without the salary test
below_floor_never(metadata, min_salary) == FALSE

\* the salary test of search(): min_salary and metadata.get('salary_min', 0) < min_salary
below_floor(metadata, min_salary) ==
    /\ min_salary # None
    /\ min_salary[1] # 0
    /\ metadata.salary_min < min_salary[1]

\* similarity = max(0, 1 - distance), rounded to 3 decimals, in thousandths
similarity_score(distance) == IF 1000 - distance > 0 THEN 1000 - distance ELSE 0

\* the result loop of search(): the candidates that pass the salary test
RECURSIVE search_process(_, _)
search_process(candidates, min_salary) ==
    IF candidates = <<>> THEN <<>>
    ELSE LET c        == Head(candidates)
             metadata == collection[c.id].metadata
         IN  IF below_floor(metadata, min_salary)
             THEN search_process(Tail(candidates), min_salary)
             ELSE <<[id |-> c.id, document |-> collection[c.id].document,
                     metadata |-> metadata,
                     similarity_score |-> similarity_score(c.distance)]>>
                  \o search_process(Tail(candidates), min_salary)

\* search(query, n_results, experience_level, remote_only, min_salary)
search(n_results, experience_level, remote_only, min_salary) ==
    /\ \E candidates \in query_results(n_results * 2,
                                       where_conditions(experience_level, remote_only)) :
          last' = [op |-> "search", n_results |-> n_results,
                   experience_level |-> experience_level,
                   remote_only |-> remote_only, min_salary |-> min_salary,
                   candidates |-> candidates,
                   ret |-> take(search_process(candidates, min_salary), n_results)]
    /\ UNCHANGED <<jobs, job_skills, collection>>

\* what collection.query can return for n_results = n when the query text is
\* a stored document: the documents with that very text are at distance 0 and
\* nearest, in any order among themselves; the others follow at a distance
\* above 0
query_results_for_document(document, n) ==
    LET ids == DOMAIN collection
        len == IF n < Cardinality(ids) THEN n ELSE Cardinality(ids)
        far == {d \in Distances : d > 0}
    IN  {r \in [1..len -> [id : ids, distance : {0} \cup far]] :
            /\ \A i, j \in 1..len : i < j =>
                  /\ r[i].id # r[j].id
                  /\ r[i].distance <= r[j].distance
            /\ \A i \in 1..len :
                  r[i].distance = 0 <=> collection[r[i].id].document = document
            /\ \A id \in ids :
                  (/\ collection[id].document = document
                   /\ \A i \in 1..len : r[i].id # id) =>
                      \A i \in 1..len : r[i].distance = 0}

\* find_similar_jobs(job_id, n_results): [] for an id not indexed, else
\* search(document, n_results + 1)[1:]
find_similar_jobs(job_id, n_results) ==
    /\ IF job_id \notin DOMAIN collection
       THEN last' = [op |-> "find_similar_jobs", job_id |-> job_id,
                     n_results |-> n_results, candidates |-> <<>>, ret |-> <<>>]
       ELSE \E candidates \in query_results_for_document(
                                  collection[job_id].document, (n_results + 1) * 2) :
               LET found == take(search_process(candidates, None), n_results + 1)
               IN  last' = [op |-> "find_similar_jobs", job_id |-> job_id,
                            n_results |-> n_results, candidates |-> candidates,
                            ret |-> IF found = <<>> THEN <<>> ELSE Tail(found)]
    /\ UNCHANGED <<jobs, job_skills, collection>>

----------------------------------------------------------------------------
(* JobAnalyzer (src/analytics/analyzer.py).                                *)

\* get_skill_demand(top_n): dict(list(stats['top_skills'].items())[:top_n])
get_skill_demand(top_n) ==
    /\ \E stats \in get_stats_results :
          last' = IF stats.raises # "none"
                  THEN [op |-> "get_skill_demand", top_n |-> top_n,
                        raises |-> stats.raises]
                  ELSE [op |-> "get_skill_demand", top_n |-> top_n,
                        raises |-> "none", ret |-> take(stats.top_skills, top_n)]
    /\ UNCHANGED <<jobs, job_skills, collection>>

\* get_salary_by_experience(): stats['salary_by_experience']
get_salary_by_experience ==
    /\ \E stats \in get_stats_results :
          last' = IF stats.raises # "none"
                  THEN [op |-> "get_salary_by_experience", raises |-> stats.raises]
                  ELSE [op |-> "get_salary_by_experience", raises |-> "none",
                        ret |-> stats.salary_by_experience]
    /\ UNCHANGED <<jobs, job_skills, collection>>

\* get_base_role with the 'ml engineer' test moved before 'data engineer'
get_base_role_ml_first(title) ==
    LET title_lower == lower(title)
    IN  IF \/ contains(title_lower, <<"m", "a", "c", "h", "i", "n", "e", " ", "l", "e", "a", "r", "n", "i", "n", "g">>)
           \/ contains(title_lower, <<"m", "l", " ", "e", "n", "g", "i", "n", "e", "e", "r">>)
        THEN "ML Engineer"
        ELSE IF contains(title_lower, <<"d", "a", "t", "a", " ", "e", "n", "g", "i", "n", "e", "e", "r">>) THEN "Data Engineer"
        ELSE "Other"

\* get_base_role(title) of get_salary_by_role
get_base_role(title) ==
    LET title_lower == lower(title)
    IN  IF contains(title_lower, <<"d", "a", "t", "a", " ", "e", "n", "g", "i", "n", "e", "e", "r">>)
        THEN "Data Engineer"
        ELSE IF \/ contains(title_lower, <<"m", "a", "c", "h", "i", "n", "e", " ", "l", "e", "a", "r", "n", "i", "n", "g">>)
                \/ contains(title_lower, <<"m", "l", " ", "e", "n", "g", "i", "n", "e", "e", "r">>)
        THEN "ML Engineer"
        ELSE IF contains(title_lower, <<"a", "i", " ", "e", "n", "g", "i", "n", "e", "e", "r">>)
        THEN "AI Engineer"
        ELSE IF contains(title_lower, <<"d", "a", "t", "a", " ", "s", "c", "i", "e", "n", "t", "i", "s", "t">>)
        THEN "Data Scientist"
        ELSE IF contains(title_lower, <<"b", "a", "c", "k", "e", "n", "d">>)
        THEN "Backend Engineer"
        ELSE IF \/ contains(title_lower, <<"f", "u", "l", "l", " ", "s", "t", "a", "c", "k">>)
                \/ contains(title_lower, <<"f", "u", "l", "l", "s", "t", "a", "c", "k">>)
        THEN "Full Stack Engineer"
        ELSE IF \/ contains(title_lower, <<"d", "e", "v", "o", "p", "s">>)
                \/ contains(title_lower, <<"s", "r", "e">>)
        THEN "DevOps Engineer"
        ELSE IF contains(title_lower, <<"a", "n", "a", "l", "y", "t", "i", "c", "s">>)
        THEN "Analytics Engineer"
        ELSE "Other"

\* df['role'] = df['title'].apply(get_base_role), for one title
apply_get_base_role ==
    /\ last.op = "title"
    /\ last' = [op |-> "get_base_role", title |-> last.title,
                role |-> get_base_role(last.title)]
    /\ UNCHANGED <<jobs, job_skills, collection>>

\* round(count / total * 100, 1) if total > 0 else 0, in tenths of a percent
percentage(count, total) ==
    IF total > 0 THEN py_round([num |-> count * 1000, den |-> total]) ELSE 0

\* what get_remote_stats() makes of a stats dict: None + None raises TypeError
remote_stats_of(stats) ==
    LET remote == stats.remote_distribution.remote
        onsite == stats.remote_distribution.on_site
    IN  IF remote = None \/ onsite = None
        THEN [raises |-> "TypeError"]
        ELSE [raises |-> "none",
              ret |-> [remote_count |-> remote[1],
                       onsite_count |-> onsite[1],
                       remote_percentage |->
                           percentage(remote[1], remote[1] + onsite[1]),
                       onsite_percentage |->
                           percentage(onsite[1], remote[1] + onsite[1])]]

\* get_remote_stats()
get_remote_stats ==
    /\ \E stats \in get_stats_results :
          last' =
            IF stats.raises # "none"
            THEN [op |-> "get_remote_stats", raises |-> stats.raises]
            ELSE [op |-> "get_remote_stats"] @@ remote_stats_of(stats)
    /\ UNCHANGED <<jobs, job_skills, collection>>

\* limit of the get_all_jobs call of get_jobs_dataframe
DataframeLimit == 10000

\* the columns get_jobs_dataframe keeps of a record
dataframe_row(job) ==
    [id |-> job.id, title |-> job.title, company |-> job.company,
     location |-> job.location, salary_min |-> job.salary_min,
     salary_max |-> job.salary_max, experience_level |-> job.experience_level,
     remote |-> job.remote, skills |-> job.skills]

\* the frames get_jobs_dataframe() can return: one row per record of
\* get_all_jobs(limit=10000); no record gives a frame with no columns
jobs_dataframes ==
    {[k \in DOMAIN found |-> dataframe_row(found[k])] :
        found \in get_all_jobs_results(DataframeLimit)}

\* top_n of the get_skill_demand call of generate_market_report
ReportTopSkills == 10

\* generate_market_report(): its entries read get_stats() and
\* get_jobs_dataframe().  The entries pandas computes from the frame
\* (salary_by_role, location_distribution, highest_paying_skills,
\* trending_skills) stand in the result as the frame they are computed from;
\* df['title'] of the frame with no columns raises KeyError.
generate_market_report ==
    /\ \E stats \in get_stats_results, df \in jobs_dataframes :
          last' =
            IF stats.raises # "none"
            THEN [op |-> "generate_market_report", raises |-> stats.raises]
            ELSE IF df = <<>>
            THEN [op |-> "generate_market_report", raises |-> "KeyError"]
            ELSE IF remote_stats_of(stats).raises # "none"
            THEN [op |-> "generate_market_report",
                  raises |-> remote_stats_of(stats).raises]
            ELSE [op |-> "generate_market_report", raises |-> "none",
                  ret |-> [total_jobs |-> stats.total_jobs,
                           top_skills |-> take(stats.top_skills, ReportTopSkills),
                           salary_by_experience |-> stats.salary_by_experience,
                           remote_stats |-> remote_stats_of(stats).ret,
                           dataframe |-> df]]
    /\ UNCHANGED <<jobs, job_skills, collection>>

\* filter_role(title, role) of get_role_comparison
filter_role(title, role) == contains(lower(title), lower(role))

\* df[df['title'].apply(lambda x: filter_role(x, role))]
rows_of_role(df, role) == SelectSeq(df, LAMBDA row : filter_role(row.title, role))

\* Series.mean() of a column of a frame: missing values are left out, NaN
\* (None here) when nothing is left
column_mean(role_df, column) ==
    LET T == {k \in DOMAIN role_df : role_df[k][column] # None}
    IN  IF T = {} THEN None
        ELSE <<[num |-> sum_over([k \in T |-> role_df[k][column][1]], T),
                den |-> Cardinality(T)]>>

\* round(mean, 0); round(nan, 0) is nan
round_mean(mean) == IF mean = None THEN None ELSE <<py_round(mean[1])>>

\* the skills of the rows of a frame, one after the other
RECURSIVE all_skills(_)
all_skills(role_df) ==
    IF role_df = <<>> THEN <<>> ELSE Head(role_df).skills \o all_skills(Tail(role_df))

\* n of Counter(all_skills).most_common(n) in get_role_stats
MostCommon == 5

\* Counter(items).most_common(n): by falling count, items of equal count in the
\* order they were first met
most_common(items, n) ==
    LET distinct == {items[k] : k \in DOMAIN items}
        count(x) == Cardinality({k \in DOMAIN items : items[k] = x})
        first(x) == CHOOSE k \in DOMAIN items :
                        items[k] = x /\ \A m \in DOMAIN items : items[m] = x => k <= m
        sorted == CHOOSE p \in Perms(distinct) :
                      \A i, j \in DOMAIN p : i < j =>
                          \/ count(p[i]) > count(p[j])
                          \/ count(p[i]) = count(p[j]) /\ first(p[i]) < first(p[j])
    IN  take([i \in DOMAIN sorted |-> [skill |-> sorted[i], count |-> count(sorted[i])]], n)

\* get_role_stats(role_df, role_name) of get_role_comparison
get_role_stats(role_df, role_name) ==
    IF Len(role_df) = 0
    THEN [role |-> role_name, count |-> 0]
    ELSE [role |-> role_name,
          count |-> Len(role_df),
          avg_salary_min |-> round_mean(column_mean(role_df, "salary_min")),
          avg_salary_max |-> round_mean(column_mean(role_df, "salary_max")),
          remote_percentage |->
              percentage(Cardinality({k \in DOMAIN role_df : role_df[k].remote}),
                         Len(role_df)),
          top_skills |-> most_common(all_skills(role_df), MostCommon)]

\* get_role_comparison(role1, role2); df['title'] of the frame with no columns
\* (no record stored) raises KeyError
get_role_comparison(role1, role2) ==
    /\ \E df \in jobs_dataframes :
          last' =
            IF df = <<>>
            THEN [op |-> "get_role_comparison", role1 |-> role1, role2 |-> role2,
                  raises |-> "KeyError"]
            ELSE [op |-> "get_role_comparison", role1 |-> role1, role2 |-> role2,
                  raises |-> "none",
                  ret |-> [role1 |-> get_role_stats(rows_of_role(df, role1), role1),
                           role2 |-> get_role_stats(rows_of_role(df, role2), role2)]]
    /\ UNCHANGED <<jobs, job_skills, collection>>

\* float('nan'), the value pandas puts for None in a column that also holds
\* numbers
NaN == <<0, 0>>

\* row[column] of row k as iterrows() gives it: a column of None only keeps
\* None (object dtype), a column with numbers holds NaN in place of None
frame_value(df, k, column) ==
    IF df[k][column] # None THEN df[k][column]
    ELSE IF \E m \in DOMAIN df : df[m][column] # None THEN NaN
    ELSE None

\* truth value of a frame value: None and 0 are false, NaN is true
truthy_value(v) == v # None /\ v # <<0>>

\* the rows get_skill_salary_correlation takes salaries from:
\* if row['salary_max'] and row['skills']
contributing_rows(df) ==
    SelectSeq([k \in DOMAIN df |->
                  [salary_min |-> frame_value(df, k, "salary_min"),
                   salary_max |-> frame_value(df, k, "salary_max"),
                   skills |-> df[k].skills]],
              LAMBDA row : truthy_value(row.salary_max) /\ row.skills # <<>>)

\* the least number of salaries a skill needs: if len(salaries) >= 5
MinSalaries == 5

\* the number of skills returned: [:15]
TopCorrelated == 15

\* round(sum(salaries) / len(salaries), 0) of the salaries gathered under a
\* skill, each (salary_min + salary_max) / 2; NaN as soon as one of them is
skill_avg_salary(rows, skill) ==
    LET T == {k \in DOMAIN rows : in_list(skill, rows[k].skills)}
    IN  IF \E k \in T : rows[k].salary_min = NaN \/ rows[k].salary_max = NaN
        THEN NaN
        ELSE <<py_round([num |-> sum_over([k \in T |-> rows[k].salary_min[1]
                                                        + rows[k].salary_max[1]], T),
                         den |-> 2 * Cardinality(T)])>>

\* get_skill_salary_correlation(): None + float raises TypeError; sorted() is
\* stable, so skills of equal mean stay in the order they were first met;
\* with a NaN among the means the comparisons of sorted() decide nothing
get_skill_salary_correlation ==
    /\ \E df \in jobs_dataframes :
          LET rows == contributing_rows(df)
              met == all_skills(rows)
              skills == {skill \in {met[k] : k \in DOMAIN met} :
                            Cardinality({k \in DOMAIN rows :
                                in_list(skill, rows[k].skills)}) >= MinSalaries}
              first(x) == CHOOSE k \in DOMAIN met :
                              met[k] = x /\ \A m \in DOMAIN met : met[m] = x => k <= m
              avg(x) == skill_avg_salary(rows, x)
          IN  IF \E k \in DOMAIN rows : rows[k].salary_min = None
              THEN last' = [op |-> "get_skill_salary_correlation",
                            raises |-> "TypeError"]
              ELSE \E p \in Perms(skills) :
                      /\ (\A x \in skills : avg(x) # NaN) =>
                            \A i, j \in DOMAIN p : i < j =>
                                \/ avg(p[i])[1] > avg(p[j])[1]
                                \/ /\ avg(p[i]) = avg(p[j])
                                   /\ first(p[i]) < first(p[j])
                      /\ last' = [op |-> "get_skill_salary_correlation",
                                  raises |-> "none",
                                  ret |-> take([i \in DOMAIN p |->
                                                  [skill |-> p[i], mean |-> avg(p[i])]],
                                               TopCorrelated)]
    /\ UNCHANGED <<jobs, job_skills, collection>>

----------------------------------------------------------------------------
(* Collectors (src/data_collection/real_collectors.py, collectors.py).     *)

\* a value of the decoded JSON body: a key that is absent, null, a string, a
\* number, or a list of strings
JsonMissing == [json |-> "missing"]
JsonNull == [json |-> "null"]
JsonStr(s) == [json |-> "str", str |-> s]
JsonNum(n) == [json |-> "num", num |-> n]
JsonList(xs) == [json |-> "list", list |-> xs]

\* data.get(key, default) of a key holding value: the default only when the
\* key is absent, a null stays None
dict_get(value, default) == IF value.json = "missing" THEN default ELSE value

\* the exception family the collectors catch around a fetch
RequestException == "requests.RequestException"

\* any(x in title_lower for x in words)
any_in(words, text) == \E i \in DOMAIN words : contains(text, words[i])

\* RemotiveCollector._guess_experience_level
remotive_guess_experience_level(title) ==
    LET title_lower == lower(title)
    IN  IF any_in(<<<<"s", "e", "n", "i", "o", "r">>, <<"s", "r", ".">>, <<"s", "r", " ">>, <<"l", "e", "a", "d">>, <<"p", "r", "i", "n", "c", "i", "p", "a", "l">>, <<"s", "t", "a", "f", "f">>>>, title_lower)
        THEN IF contains(title_lower, <<"p", "r", "i", "n", "c", "i", "p", "a", "l">>) \/ contains(title_lower, <<"s", "t", "a", "f", "f">>)
             THEN "Principal"
             ELSE IF contains(title_lower, <<"l", "e", "a", "d">>) THEN "Lead" ELSE "Senior"
        ELSE IF any_in(<<<<"j", "u", "n", "i", "o", "r">>, <<"j", "r", ".">>, <<"j", "r", " ">>, <<"e", "n", "t", "r", "y">>, <<"a", "s", "s", "o", "c", "i", "a", "t", "e">>, <<"i", "n", "t", "e", "r", "n">>>>, title_lower)
        THEN "Entry"
        ELSE "Mid"

\* ArbeitnowCollector._guess_experience_level
arbeitnow_guess_experience_level(title) ==
    LET title_lower == lower(title)
    IN  IF any_in(<<<<"s", "e", "n", "i", "o", "r">>, <<"s", "r", ".">>, <<"l", "e", "a", "d">>, <<"p", "r", "i", "n", "c", "i", "p", "a", "l">>, <<"s", "t", "a", "f", "f">>>>, title_lower)
        THEN IF contains(title_lower, <<"p", "r", "i", "n", "c", "i", "p", "a", "l">>) \/ contains(title_lower, <<"s", "t", "a", "f", "f">>)
             THEN "Principal"
             ELSE IF contains(title_lower, <<"l", "e", "a", "d">>) THEN "Lead" ELSE "Senior"
        ELSE IF any_in(<<<<"j", "u", "n", "i", "o", "r">>, <<"j", "r", ".">>, <<"e", "n", "t", "r", "y">>, <<"i", "n", "t", "e", "r", "n">>>>, title_lower)
        THEN "Entry"
        ELSE "Mid"

\* RemotiveCollector._parse_job: None when anything in the try block raises.
\* title.lower() in _guess_experience_level, job_type.replace() and
\* description.lower() in extract_skills_from_description need a str; the
\* skills are list(set(found)), kept as the set
remotive_parse_job(data) ==
    LET title == dict_get(data.title, JsonStr(<<>>))
        job_type == dict_get(data.job_type, JsonStr(<<"f", "u", "l", "l", "_", "t", "i", "m", "e">>))
        description == dict_get(data.description, JsonStr(<<>>))
    IN  IF title.json # "str" \/ job_type.json # "str" \/ description.json # "str"
        THEN None
        ELSE <<[title |-> title.str,
                description |-> description.str,
                experience_level |-> remotive_guess_experience_level(title.str),
                remote |-> TRUE,
                skills |-> found_skills(description.str),
                source |-> "remotive"]>>

\* tech_keywords of _is_tech_job
tech_keywords ==
    <<
      <<"d", "e", "v", "e", "l", "o", "p", "e", "r">>,
      <<"e", "n", "g", "i", "n", "e", "e", "r">>,
      <<"p", "r", "o", "g", "r", "a", "m", "m", "e", "r">>,
      <<"s", "o", "f", "t", "w", "a", "r", "e">>,
      <<"d", "a", "t", "a">>,
      <<"d", "e", "v", "o", "p", "s">>,
      <<"c", "l", "o", "u", "d">>,
      <<"p", "y", "t", "h", "o", "n">>,
      <<"j", "a", "v", "a">>,
      <<"j", "a", "v", "a", "s", "c", "r", "i", "p", "t">>,
      <<"b", "a", "c", "k", "e", "n", "d">>,
      <<"f", "r", "o", "n", "t", "e", "n", "d">>,
      <<"f", "u", "l", "l", "s", "t", "a", "c", "k">>,
      <<"m", "a", "c", "h", "i", "n", "e", " ", "l", "e", "a", "r", "n", "i", "n", "g">>,
      <<"a", "i", " ">>,
      <<"m", "l", " ">>,
      <<"a", "n", "a", "l", "y", "s", "t">>,
      <<"a", "r", "c", "h", "i", "t", "e", "c", "t">>,
      <<"s", "e", "c", "u", "r", "i", "t", "y">>,
      <<"d", "a", "t", "a", "b", "a", "s", "e">>,
      <<"a", "p", "i">>
    >>

\* " ".join(items)
RECURSIVE join_space(_)
join_space(items) ==
    IF Len(items) = 0 THEN <<>>
    ELSE IF Len(items) = 1 THEN items[1]
    ELSE items[1] \o <<" ">> \o join_space(Tail(items))

\* what " ".join walks: the strings of a list, the characters of a str
join_items(tags) ==
    IF tags.json = "list" THEN tags.list
    ELSE [i \in DOMAIN tags.str |-> <<tags.str[i]>>]

\* ArbeitnowCollector._is_tech_job, which runs outside any try block:
\* data.get("title", "").lower() raises AttributeError unless the title is a
\* str, " ".join(data.get("tags", [])) raises TypeError unless the tags are a
\* list of strings or a str
is_tech_job(data) ==
    LET title == dict_get(data.title, JsonStr(<<>>))
        tags == dict_get(data.tags, JsonList(<<>>))
    IN  IF title.json # "str" THEN [raises |-> "AttributeError"]
        ELSE IF tags.json \notin {"list", "str"} THEN [raises |-> "TypeError"]
        ELSE [raises |-> "none",
              ret |-> \E i \in DOMAIN tech_keywords :
                          \/ contains(lower(title.str), tech_keywords[i])
                          \/ contains(lower(join_space(join_items(tags))),
                                      tech_keywords[i])]

\* ArbeitnowCollector._parse_job: None when anything in the try block raises.
\* The tags set as skills are replaced by extract_skills_from_description
arbeitnow_parse_job(data) ==
    LET title == dict_get(data.title, JsonStr(<<>>))
        tags == dict_get(data.tags, JsonList(<<>>))
        description == dict_get(data.description, JsonStr(<<>>))
        remote == dict_get(data.remote, [json |-> "bool", bool |-> FALSE])
    IN  IF title.json # "str" \/ tags.json \notin {"list", "str"}
           \/ description.json # "str"
        THEN None
        ELSE <<[title |-> title.str,
                description |-> description.str,
                experience_level |-> arbeitnow_guess_experience_level(title.str),
                remote |-> remote,
                skills |-> found_skills(description.str),
                source |-> "arbeitnow"]>>

\* the categories a RemotiveCollector fetches by default
categories == <<"software-dev", "data", "devops">>

\* pages an ArbeitnowCollector is built to fetch
MaxPages == 2

\* postings in one response
MaxBatchLen == 2

\* upstream postings: a well-formed one, one with a null title, one with a
\* null description, one whose tags are a number
api == <<"a", "p", "i">>
WellFormed ==
    [title |-> JsonStr(api), description |-> JsonStr(sql),
     tags |-> JsonList(<<java>>), job_type |-> JsonMissing, remote |-> JsonMissing]
UpstreamPostings ==
    {WellFormed,
     [WellFormed EXCEPT !.title = JsonNull],
     [WellFormed EXCEPT !.description = JsonNull],
     [WellFormed EXCEPT !.tags = JsonNum(7)]}

\* what a fetch can end in: an exception of requests.get / raise_for_status,
\* or a body holding a list of postings
Responses ==
    {[raises |-> RequestException]}
    \cup {[raises |-> "none", jobs |-> batch] :
             batch \in {<<>>} \cup SeqsUpTo(UpstreamPostings, MaxBatchLen)}

\* the collectors of a run, in the order refresh_with_real_data adds them
collectors == <<"remotive", "arbeitnow">>

\* the requests a collector makes when nothing stops it: one per category,
\* one per page
slots(source) == IF source = "remotive" THEN Len(categories) ELSE MaxPages

\* collect_all once a collector's generator is exhausted: all_jobs.extend(jobs)
\* and the next collector, or return all_jobs after the last one
next_collector(run) ==
    LET all_jobs == run.all_jobs \o run.jobs
    IN  IF run.collector = Len(collectors)
        THEN [run EXCEPT !.all_jobs = all_jobs, !.jobs = <<>>,
                         !.done = TRUE, !.ret = <<all_jobs>>]
        ELSE [run EXCEPT !.all_jobs = all_jobs, !.jobs = <<>>,
                         !.collector = run.collector + 1, !.at = 1]

\* the for loop of collect moving on to its next category or page
next_slot(run) ==
    IF run.at = slots(collectors[run.collector])
    THEN next_collector(run)
    ELSE [run EXCEPT !.at = run.at + 1]

\* an except clause that leaves the loop
except_request_exception_break(run) == next_collector(run)

\* except requests.RequestException: print and continue
except_request_exception(run) == next_slot(run)

\* the postings of a body that have every field in its place
well_formed(response) ==
    IF response.raises # "none" THEN 0
    ELSE Cardinality({i \in DOMAIN response.jobs : response.jobs[i] = WellFormed})

\* the request now made, added to the log of the run, and the number of
\* well-formed postings its response brought
requested(run, response) ==
    [run EXCEPT !.requests =
                    Append(run.requests, [source |-> collectors[run.collector],
                                          at |-> run.at,
                                          raises |-> response.raises]),
                !.well_formed = well_formed(response)]

\* the inner loop of RemotiveCollector.collect
RECURSIVE remotive_batch(_, _)
remotive_batch(batch, yielded) ==
    IF batch = <<>> THEN yielded
    ELSE remotive_batch(Tail(batch), yielded \o remotive_parse_job(Head(batch)))

\* the inner loop of ArbeitnowCollector.collect; an exception of _is_tech_job
\* ends it
RECURSIVE arbeitnow_batch(_, _)
arbeitnow_batch(batch, yielded) ==
    IF batch = <<>> THEN [raises |-> "none", yielded |-> yielded]
    ELSE LET tech == is_tech_job(Head(batch))
         IN  IF tech.raises # "none"
             THEN [raises |-> tech.raises, yielded |-> yielded]
             ELSE arbeitnow_batch(Tail(batch),
                      IF tech.ret
                      THEN yielded \o arbeitnow_parse_job(Head(batch))
                      ELSE yielded)

\* DataCollectionManager.collect_all() up to its first request
collect_all ==
    /\ last' = [op |-> "collect_all", done |-> FALSE, collector |-> 1, at |-> 1,
                jobs |-> <<>>, all_jobs |-> <<>>, requests |-> <<>>,
                raises |-> "none", ret |-> None,
                well_formed |-> 0]
    /\ UNCHANGED <<jobs, job_skills, collection>>

\* one pass of the loop of RemotiveCollector.collect, driven by collect_all
RemotiveCollector_collect(response) ==
    /\ last.op = "collect_all"
    /\ ~last.done
    /\ collectors[last.collector] = "remotive"
    /\ last' =
         LET run == requested(last, response)
         IN  IF response.raises # "none"
             THEN except_request_exception(run)
             ELSE next_slot([run EXCEPT !.jobs =
                                 remotive_batch(response.jobs, run.jobs)])
    /\ UNCHANGED <<jobs, job_skills, collection>>

\* one pass of the loop of ArbeitnowCollector.collect, driven by collect_all;
\* an exception other than RequestException leaves collect and collect_all,
\* and what had been gathered is lost with it
ArbeitnowCollector_collect(response) ==
    /\ last.op = "collect_all"
    /\ ~last.done
    /\ collectors[last.collector] = "arbeitnow"
    /\ last' =
         LET run == requested(last, response)
         IN  IF response.raises # "none"
             THEN except_request_exception(run)
             ELSE IF response.jobs = <<>>
             THEN next_collector(run)
             ELSE LET batch == arbeitnow_batch(response.jobs, run.jobs)
                  IN  IF batch.raises # "none"
                      THEN [run EXCEPT !.jobs = batch.yielded, !.done = TRUE,
                                       !.raises = batch.raises]
                      ELSE next_slot([run EXCEPT !.jobs = batch.yielded])
    /\ UNCHANGED <<jobs, job_skills, collection>>

----------------------------------------------------------------------------
(* Specifications.                                                         *)

Init ==
    /\ jobs = << >>
    /\ job_skills = EmptyBag
    /\ collection = << >>
    /\ last = [op |-> "init"]

\* the job store with postings that differ in their skills
Next ==
    \/ \E job \in SkillPostings :
          \E fail \in 0..statement_count(job, 1) : insert_job(job, fail)
    \/ clear_all
    \/ \E top_n \in 0..MaxTopN : get_skill_demand(top_n)

Spec == Init /\ [][Next]_vars

\* the job store with postings that differ in level, remote flag and salary
NextStats ==
    \/ \E job \in StatsPostings : insert_job(job, 0)
    \/ clear_all
    \/ get_remote_stats
    \/ get_salary_by_experience
    \/ generate_market_report
    \/ get_stats

SpecStats == Init /\ [][NextStats]_vars

\* get_base_role applied to one title
InitRole ==
    /\ jobs = << >>
    /\ job_skills = EmptyBag
    /\ collection = << >>
    /\ \E title \in Titles : last = [op |-> "title", title |-> title]

NextRole == apply_get_base_role

SpecRole == InitRole /\ [][NextRole]_vars

\* extract_skills_from_description applied to one posting
InitSkills ==
    /\ jobs = << >>
    /\ job_skills = EmptyBag
    /\ collection = << >>
    /\ \E job \in DescribedPostings : last = [op |-> "JobPosting", job |-> job]

NextSkills == extract_skills_from_description

SpecSkills == InitSkills /\ [][NextSkills]_vars

\* extract_skills_from_description applied to a posting a collector has built
InitCollected ==
    /\ jobs = << >>
    /\ job_skills = EmptyBag
    /\ collection = << >>
    /\ \E job \in CollectedPostings : last = [op |-> "JobPosting", job |-> job]

NextCollected == extract_skills_from_description

SpecCollected == InitCollected /\ [][NextCollected]_vars

\* the vector store filled by add_jobs
NextIndex ==
    \/ \E jobs_list \in JobLists, batch_size \in BatchSizes :
          add_jobs(jobs_list, batch_size)
    \/ clear

SpecIndex == Init /\ [][NextIndex]_vars

\* the vector store filled one posting at a time, and searched
NextRetrieval ==
    \/ \E job \in IndexPostings : add_jobs(<<job>>, DefaultBatchSize)
    \/ clear
    \/ \E n_results \in 1..MaxNResults, experience_level \in {None, <<"Senior">>},
          remote_only \in BOOLEAN, min_salary \in SalaryFloors :
          search(n_results, experience_level, remote_only, min_salary)

SpecRetrieval == Init /\ [][NextRetrieval]_vars

\* the vector store filled one posting at a time, and asked for neighbours
NextSimilar ==
    \/ \E job \in SimilarPostings : add_jobs(<<job>>, DefaultBatchSize)
    \/ clear
    \/ \E job_id \in JobIds, n_results \in 1..MaxNResults :
          find_similar_jobs(job_id, n_results)

SpecSimilar == Init /\ [][NextSimilar]_vars

\* the job store and the comparison of two roles
NextCompare ==
    \/ \E job \in ComparePostings : insert_job(job, 0)
    \/ clear_all
    \/ \E role1 \in Roles, role2 \in Roles : get_role_comparison(role1, role2)

SpecCompare == Init /\ [][NextCompare]_vars

\* the job store and the salaries by skill
NextCorrelation ==
    \/ \E job \in CorrelationPostings : insert_job(job, 0)
    \/ clear_all
    \/ get_skill_salary_correlation

SpecCorrelation == Init /\ [][NextCorrelation]_vars

\* the job store under insert_job, insert_many and clear_all, with faults
NextIntegrity ==
    \/ \E job \in IntegrityPostings :
          \E fail \in 0..statement_count(job, 1) : insert_job(job, fail)
    \/ \E jobs_list \in IntegrityLists : \E fault \in Faults(jobs_list) :
          insert_many(jobs_list, fault)
    \/ clear_all

SpecIntegrity == Init /\ [][NextIntegrity]_vars

\* the relational store filled with postings and searched
NextSearch ==
    \/ \E job \in SearchPostings : insert_job(job, 0)
    \/ clear_all
    \/ \E c \in SearchCalls :
          search_jobs(c.query, c.company, c.location, c.skills, c.experience_level,
                      c.remote_only, c.min_salary, c.limit)
    \/ \E job_id \in StatsIds : get_job(job_id)
    \/ get_all_jobs(DefaultAllLimit)
    \/ \E job \in SearchPostings : from_dict_of_to_dict(job)

SpecSearch == Init /\ [][NextSearch]_vars

\* the job store filled by insert_many, with and without a fault
NextMany ==
    \/ \E jobs_list \in ManyLists : \E fault \in Faults(jobs_list) :
          insert_many(jobs_list, fault)
    \/ clear_all

SpecMany == Init /\ [][NextMany]_vars

\* the job store and the vector store, filled and cleared
NextBoth ==
    \/ \E job \in BothPostings :
          \E fail \in 0..statement_count(job, 1) : insert_job(job, fail)
    \/ clear_all
    \/ \E jobs_list \in BothLists, batch_size \in BatchSizes :
          add_jobs(jobs_list, batch_size)
    \/ clear

SpecBoth == Init /\ [][NextBoth]_vars

\* the operations of the job store, each inside its connection
InitConnection ==
    /\ jobs = << >>
    /\ job_skills = EmptyBag
    /\ collection = << >>
    /\ last = [op |-> "_init_db", call |-> [name |-> "_init_db"], raises |-> "none",
               ret |-> None, open |-> 0]

NextConnection ==
    \/ \E call \in Calls, connects \in BOOLEAN : get_connection(call, connects)
    \/ \E exc \in Exceptions : with_body(exc)
    \/ finally_close

SpecConnection == InitConnection /\ [][NextConnection]_vars

\* the record in the job store while a collection runs
StoredPostings == {job \in ManyPostings : job.id = "a1" /\ job.skills # <<>>}

\* a collection run beside the job store
NextCollect ==
    \/ \E job \in StoredPostings : insert_job(job, 0)
    \/ collect_all
    \/ \E response \in Responses : RemotiveCollector_collect(response)
    \/ \E response \in Responses : ArbeitnowCollector_collect(response)

SpecCollect == Init /\ [][NextCollect]_vars

----------------------------------------------------------------------------
(* Claims.                                                                 *)

\* the posting of the last insert_job is the one stored under its id
LastJobStored ==
    /\ last.job.id \in DOMAIN jobs
    /\ jobs[last.job.id] = job_to_row(last.job)

\* C1: insert is idempotent per id.  An insert that meets no storage error
\* returns True exactly when the id was not present; when the id was present
\* the jobs row count and the job_skills rows of the id are left as they were;
\* and while the record is the stored one, job_skills holds one row per entry of
\* its skills list (the lowercased skill, as often as the list has it).
C1_InsertIdempotent ==
    (last.op = "insert_job" /\ last.fail = 0) =>
        /\ last.raises = "none"
        /\ last.ret = <<~last.present>>
        /\ last.present =>
              /\ Cardinality(DOMAIN jobs) = last.njobs
              /\ skill_row_count(last.job.id) = last.nskills
        /\ LastJobStored =>
              /\ skill_row_count(last.job.id) = Len(last.job.skills)
              /\ \A i \in DOMAIN last.job.skills :
                    CopiesIn([job_id |-> last.job.id,
                              skill |-> lower(last.job.skills[i])], job_skills)
                    = Cardinality({k \in DOMAIN last.job.skills :
                          lower(last.job.skills[k]) = lower(last.job.skills[i])})

\* a second insert of a stored record with two skills returned False
C1_Witness ==
    /\ last.op = "insert_job"
    /\ last.fail = 0
    /\ last.present
    /\ LastJobStored
    /\ Len(last.job.skills) = 2
    /\ last.ret = <<FALSE>>

\* C2: addMany called twice in a row with the same list adds 0 documents the
\* second time, reports the whole list as skipped and leaves the set of indexed
\* ids as it was.
C2_AddManyTwice ==
    (last.op = "add_jobs" /\ last.repeat) =>
        /\ last.added = 0
        /\ last.handed = <<>>
        /\ last.skipped = Len(last.jobs)
        /\ DOMAIN collection = last.ids_before

\* the same two-element list was added twice in a row
C2_Witness ==
    /\ last.op = "add_jobs"
    /\ last.repeat
    /\ Len(last.jobs) = 2
    /\ last.jobs[1].id # last.jobs[2].id
    /\ last.skipped = 2

\* whether text contains sub, letters compared without regard to case
ContainsIgnoringCase(text, sub) == contains(lower(text), lower(sub))

\* C3: the filters of search are conjunctive: every returned record satisfies
\* every supplied filter at once: the query occurs in its title, description or
\* company, the company and location texts occur in its company and location
\* (case-insensitive), its experience level is the requested one, it is remote
\* when remote_only is set, its salary_min is at least min_salary, and it has
\* one of the requested skills (case-insensitive).
C3_FiltersConjunctive ==
    last.op = "search_jobs" =>
        \A i \in DOMAIN last.ret :
            LET job == last.ret[i]
            IN  /\ last.query # None =>
                      \/ ContainsIgnoringCase(job.title, last.query[1])
                      \/ ContainsIgnoringCase(job.description, last.query[1])
                      \/ ContainsIgnoringCase(job.company, last.query[1])
                /\ last.company # None =>
                      ContainsIgnoringCase(job.company, last.company[1])
                /\ last.location # None =>
                      ContainsIgnoringCase(job.location, last.location[1])
                /\ last.experience_level # None =>
                      job.experience_level = last.experience_level[1]
                /\ last.remote_only => job.remote = TRUE
                /\ last.min_salary # None =>
                      or_zero(job.salary_min) >= last.min_salary[1]
                /\ last.skills # None =>
                      \E k \in DOMAIN last.skills[1] :
                          in_list(lower(last.skills[1][k]), lower_all(job.skills))

\* the same statement for the searches whose texts hold no _ and no %
C3_WithoutWildcards ==
    (/\ last.op = "search_jobs"
     /\ \A x \in {last.query, last.company, last.location} :
           x # None => \A k \in DOMAIN x[1] : x[1][k] \notin {"_", "%"})
        => C3_FiltersConjunctive

\* C4: search with a salary floor returns no record below the floor: every
\* result's metadata salary_min (0 for a record indexed without a salary) is at
\* least min_salary.
C4_SalaryFloor ==
    (last.op = "search" /\ last.min_salary # None) =>
        \A i \in DOMAIN last.ret :
            /\ last.ret[i].id \in DOMAIN collection
            /\ last.ret[i].metadata = collection[last.ret[i].id].metadata
            /\ last.ret[i].metadata.salary_min >= last.min_salary[1]

\* of the 2 * n candidates fetched the nearer one was below the floor and was
\* dropped, the other one was returned
C4_Witness ==
    /\ last.op = "search"
    /\ last.min_salary = <<120000>>
    /\ Len(last.candidates) = 2 * last.n_results
    /\ collection[last.candidates[1].id].metadata.salary_min < 120000
    /\ Len(last.ret) = 1
    /\ last.ret[1].id = last.candidates[2].id

\* C5: with no record in the store, remoteStats() raises nothing and reports
\* remote_percentage = 0 and onsite_percentage = 0.
C5_RemoteStatsEmptyStore ==
    (last.op = "get_remote_stats" /\ DOMAIN jobs = {}) =>
        /\ last.raises = "none"
        /\ last.ret.remote_percentage = 0
        /\ last.ret.onsite_percentage = 0

\* v is the mean of column over the rows G, rounded to a whole number
IsRoundedMean(v, column, G) ==
    /\ G # {}
    /\ \A i \in G : column[i] # None
    /\ LET total == sum_over([i \in G |-> column[i][1]], G)
           n     == Cardinality(G)
           diff  == v * n - total
       IN  2 * (IF diff < 0 THEN -diff ELSE diff) <= n

\* C6: salaryByExperience() returns, for each experience level with a record
\* whose salary_min is set, the rounded mean of salary_min and the rounded mean
\* of salary_max over exactly the records of that level whose salary_min is set.
C6_SalaryByExperience ==
    last.op = "get_salary_by_experience" =>
        /\ last.raises = "none"
        /\ \A i \in DOMAIN jobs :
              jobs[i].salary_min # None =>
                  LET level == jobs[i].experience_level
                      G     == {k \in DOMAIN jobs :
                                   /\ jobs[k].experience_level = level
                                   /\ jobs[k].salary_min # None}
                  IN  /\ level \in DOMAIN last.ret
                      /\ IsRoundedMean(last.ret[level].min,
                             [k \in DOMAIN jobs |-> jobs[k].salary_min], G)
                      /\ IsRoundedMean(last.ret[level].max,
                             [k \in DOMAIN jobs |-> jobs[k].salary_max], G)

\* the stored records that list a skill, compared case-insensitively
RecordsListing(skill) ==
    {i \in DOMAIN jobs : in_list(lower(skill), lower_all(jobs[i].skills))}

\* C8: skillDemand(topN) returns at most topN skills in descending order of
\* count, a skill's count being the number of stored records that list it, and
\* no skill left out has a larger count than a returned one.
C8_SkillDemand ==
    last.op = "get_skill_demand" =>
        /\ last.raises = "none"
        /\ Len(last.ret) <= last.top_n
        /\ \A i, j \in DOMAIN last.ret :
              i < j => last.ret[i].count >= last.ret[j].count
        /\ \A i \in DOMAIN last.ret :
              last.ret[i].count = Cardinality(RecordsListing(last.ret[i].skill))
        /\ \A i \in DOMAIN last.ret, k \in DOMAIN jobs :
              \A n \in DOMAIN jobs[k].skills :
                  LET skill == lower(jobs[k].skills[n])
                  IN  (\A j \in DOMAIN last.ret : last.ret[j].skill # skill) =>
                          Cardinality(RecordsListing(skill)) <= last.ret[i].count

\* the rules of the role classifier in their priority order
RoleRules ==
    <<[role |-> "Data Engineer", keywords |-> {<<"d", "a", "t", "a", " ", "e", "n", "g", "i", "n", "e", "e", "r">>}],
      [role |-> "ML Engineer",
       keywords |-> {<<"m", "a", "c", "h", "i", "n", "e", " ", "l", "e", "a", "r", "n", "i", "n", "g">>,
                     <<"m", "l", " ", "e", "n", "g", "i", "n", "e", "e", "r">>}],
      [role |-> "AI Engineer", keywords |-> {<<"a", "i", " ", "e", "n", "g", "i", "n", "e", "e", "r">>}],
      [role |-> "Data Scientist", keywords |-> {<<"d", "a", "t", "a", " ", "s", "c", "i", "e", "n", "t", "i", "s", "t">>}],
      [role |-> "Backend Engineer", keywords |-> {<<"b", "a", "c", "k", "e", "n", "d">>}],
      [role |-> "Full Stack Engineer",
       keywords |-> {<<"f", "u", "l", "l", " ", "s", "t", "a", "c", "k">>,
                     <<"f", "u", "l", "l", "s", "t", "a", "c", "k">>}],
      [role |-> "DevOps Engineer", keywords |-> {<<"d", "e", "v", "o", "p", "s">>, <<"s", "r", "e">>}],
      [role |-> "Analytics Engineer", keywords |-> {<<"a", "n", "a", "l", "y", "t", "i", "c", "s">>}]>>

\* sub occurs in s when letter case is ignored
OccursIgnoringCase(s, sub) ==
    \E i \in 0..(Len(s) - Len(sub)) :
        \A k \in 1..Len(sub) : lower_char(s[i + k]) = lower_char(sub[k])

\* the rules a title matches
MatchingRules(title) ==
    {i \in DOMAIN RoleRules :
        \E kw \in RoleRules[i].keywords : OccursIgnoringCase(title, kw)}

\* C7: a title gets the role of the earliest rule it matches in the order Data
\* Engineer, ML Engineer, AI Engineer, Data Scientist, Backend Engineer, Full
\* Stack Engineer, DevOps Engineer, Analytics Engineer, and Other when it
\* matches none.
C7_RolePriority ==
    last.op = "get_base_role" =>
        LET m == MatchingRules(last.title)
        IN  last.role = IF m = {} THEN "Other"
                        ELSE RoleRules[CHOOSE i \in m : \A j \in m : i <= j].role

\* "Senior ML Engineer / Data Engineer" matches two rules and is a Data Engineer
C7_Witness ==
    /\ last.op = "get_base_role"
    /\ last.title = 
        <<"S", "e", "n", "i", "o", "r", " ", "M", "L", " ", "E", "n", "g", "i", "n", "e", "e", "r", " ", "/", " ", "D", "a", "t", "a", " ", "E", "n", "g", "i", "n", "e", "e", "r">>
    /\ MatchingRules(last.title) = {1, 2}
    /\ last.role = "Data Engineer"

\* C9: skill extraction yields exactly the vocabulary terms that occur in the
\* description when letter case is ignored, each once and in lowercase.
C9_SkillExtraction ==
    last.op = "extract_skills_from_description" =>
        /\ \A i \in DOMAIN common_skills :
              in_list(common_skills[i], last.ret)
              <=> OccursIgnoringCase(last.job.description, common_skills[i])
        /\ \A i \in DOMAIN last.ret :
              /\ in_list(last.ret[i], common_skills)
              /\ last.ret[i] = lower(last.ret[i])
        /\ \A i, j \in DOMAIN last.ret : last.ret[i] = last.ret[j] => i = j
        /\ last.job.skills = last.ret

\* "Experience with Python, AWS and Kubernetes" yields python, aws, kubernetes
C9_Witness ==
    /\ last.op = "extract_skills_from_description"
    /\ last.job.description = 
        <<"E", "x", "p", "e", "r", "i", "e", "n", "c", "e", " ", "w", "i", "t", "h", " ", "P", "y", "t", "h", "o", "n", ",", " ", "A", "W", "S", " ", "a", "n", "d", " ", "K", "u", "b", "e", "r", "n", "e", "t", "e", "s">>
    /\ Len(last.ret) = 3
    /\ {last.ret[i] : i \in DOMAIN last.ret}
       = {<<"p", "y", "t", "h", "o", "n">>, <<"a", "w", "s">>, 
          <<"k", "u", "b", "e", "r", "n", "e", "t", "e", "s">>}

\* C10: a storage error raised while insert is writing (the main row, a skill
\* row or the commit) does not reach the caller: insert returns False.
C10_StorageErrorReturnsFalse ==
    (last.op = "insert_job" /\ last.fail # 0) =>
        /\ last.raises = "none"
        /\ last.ret = <<FALSE>>

\* the storage layer raised while the second skill row of a new record was written
C10_Witness ==
    /\ last.op = "insert_job"
    /\ ~last.present
    /\ last.fail = 3
    /\ Len(last.job.skills) = 2
    /\ last.ret = <<FALSE>>

\* C11: insertMany commits record by record.  Every record of the list for
\* which insert returned True is stored with one skill row per skill, also when
\* a later record made the call stop with an error, and the record at which the
\* call stopped left nothing; when the call returns, insertedCount +
\* skippedCount is the length of the list and insertedCount is the growth of
\* the jobs row count.
C11_InsertManyNotAtomic ==
    last.op = "insert_many" =>
        /\ \A k \in last.inserted_at :
              /\ last.jobs[k].id \in DOMAIN jobs
              /\ jobs[last.jobs[k].id] = job_to_row(last.jobs[k])
              /\ skill_row_count(last.jobs[k].id) = Len(last.jobs[k].skills)
        /\ Cardinality(DOMAIN jobs) = last.njobs + Cardinality(last.inserted_at)
        /\ last.raises = "none" =>
              /\ last.inserted + last.skipped = Len(last.jobs)
              /\ last.inserted = Cardinality(DOMAIN jobs) - last.njobs
        /\ last.raises # "none" =>
              last.inserted_at \subseteq 1..(last.stopped_at - 1)

\* the call stopped with an error at its second record, after the first was
\* inserted with its skill row
C11_Witness ==
    /\ last.op = "insert_many"
    /\ last.raises = "AttributeError"
    /\ last.stopped_at = 2
    /\ last.inserted_at = {1}
    /\ Len(last.jobs[1].skills) = 1
    /\ last.jobs[1].id \in DOMAIN jobs

\* what insert_many leaves and returns for a list, run on the tables it found
ManyOutcome(jobs_list) ==
    LET st == insert_many_on(last.before, jobs_list, last.fault)
    IN  [jobs |-> st.jobs, job_skills |-> st.job_skills,
         inserted |-> st.inserted, skipped |-> st.skipped]

\* the reorderings of a list
Reorderings(jobs_list) ==
    {[k \in DOMAIN jobs_list |-> jobs_list[p[k]]] : p \in Perms(DOMAIN jobs_list)}

\* C12: the outcome of insertMany does not depend on the order of its input:
\* every permutation of the list leaves the same rows and skill rows and
\* returns the same (insertedCount, skippedCount).
C12_OrderIndependent ==
    (last.op = "insert_many" /\ last.fault.at = 0) =>
        \A other \in Reorderings(last.jobs) :
            ManyOutcome(other) = ManyOutcome(last.jobs)

\* C12 as amended: every permutation of the list leaves the same ids stored and
\* returns the same (insertedCount, skippedCount); it leaves the same rows and
\* skill rows when the records of the list that share an id are equal.
C12_OrderIndependentIds ==
    (last.op = "insert_many" /\ last.fault.at = 0) =>
        /\ ManyOutcome(last.jobs).jobs = jobs
        /\ ManyOutcome(last.jobs).inserted = last.inserted
        /\ \A other \in Reorderings(last.jobs) :
              /\ DOMAIN ManyOutcome(other).jobs = DOMAIN jobs
              /\ ManyOutcome(other).inserted = last.inserted
              /\ ManyOutcome(other).skipped = last.skipped
              /\ (\A i, j \in DOMAIN last.jobs :
                     last.jobs[i].id = last.jobs[j].id => last.jobs[i] = last.jobs[j])
                 => ManyOutcome(other) = ManyOutcome(last.jobs)

\* a list of two records with different ids, one of them stored before, was
\* inserted
C12_Witness ==
    /\ last.op = "insert_many"
    /\ last.fault.at = 0
    /\ Len(last.jobs) = 2
    /\ last.jobs[1].id # last.jobs[2].id
    /\ last.inserted = 1
    /\ last.skipped = 1

\* the number of rows of a job_skills table that belong to one job
SkillRowsIn(table, id) ==
    BagCardinality([r \in {x \in BagToSet(table) : x.job_id = id} |-> table[r]])

\* C13: clear() empties a store.  Right after clear_all the jobs and job_skills
\* tables are empty, get_stats reports total_jobs 0 and no skill counts; right
\* after clear the index holds 0 documents; and a record that was stored before
\* the clear is accepted as new by the next call: insert_job returns True and
\* stores it, add_jobs counts every id of its list as added.
C13_ClearEmpties ==
    [][/\ last'.op = "clear_all" =>
              /\ jobs' = << >>
              /\ job_skills' = EmptyBag
              /\ \A r \in get_stats_results' :
                    r.raises = "none" /\ r.total_jobs = 0 /\ r.top_skills = <<>>
       /\ last'.op = "clear" => (collection' = << >> /\ total_documents' = 0)
       /\ (/\ last.op = "clear_all"
           /\ last'.op = "insert_job"
           /\ last'.fail = 0
           /\ last'.job.id \in last.cleared) =>
              /\ last'.ret = <<TRUE>>
              /\ jobs'[last'.job.id] = job_to_row(last'.job)
              /\ SkillRowsIn(job_skills', last'.job.id) = Len(last'.job.skills)
       /\ (/\ last.op = "clear"
           /\ last'.op = "add_jobs"
           /\ \E k \in DOMAIN last'.jobs : last'.jobs[k].id \in last.cleared) =>
              /\ last'.added = Cardinality({last'.jobs[k].id : k \in DOMAIN last'.jobs})
              /\ \A k \in DOMAIN last'.jobs : last'.jobs[k].id \in DOMAIN collection'
      ]_vars

\* clear_all has emptied a store of two records with their skill rows while the
\* index held documents
C13_Witness ==
    /\ last.op = "clear_all"
    /\ Cardinality(last.cleared) = 2
    /\ jobs = << >>
    /\ collection # << >>

\* the distance the index reported for a result of the last search
DistanceOf(id) ==
    LET k == CHOOSE k \in DOMAIN last.candidates : last.candidates[k].id = id
    IN  last.candidates[k].distance

\* C14: every result of search carries similarity_score = max(0, 1 - distance)
\* rounded to 3 decimals, and the score lies in [0, 1] for every distance the
\* index returns, above 1 or below 0 (scores are in thousandths).
C14_SimilarityScore ==
    last.op = "search" =>
        \A i \in DOMAIN last.ret :
            LET d == DistanceOf(last.ret[i].id)
            IN  /\ last.ret[i].similarity_score = IF 1000 - d > 0 THEN 1000 - d ELSE 0
                /\ last.ret[i].similarity_score >= 0
                /\ last.ret[i].similarity_score <= 1000

\* the same statement for the distances that are not negative
C14_NonNegativeDistances ==
    (/\ last.op = "search"
     /\ \A k \in DOMAIN last.candidates : last.candidates[k].distance >= 0)
        => C14_SimilarityScore

\* no two entries of a skills list are equal when letter case is ignored
NoDuplicateSkills(skills) ==
    \A i, j \in DOMAIN skills : lower(skills[i]) = lower(skills[j]) => i = j

\* C15: every JobRecord, however its skills were populated, has a skills list
\* with no two entries equal case-insensitively: the records handed to insert
\* and the stored ones; and a stored record contributes at most 1 to the count
\* of any skill (job_skills holds at most one row per job and skill).
C15_NoDuplicateSkills ==
    /\ last.op = "insert_job" => NoDuplicateSkills(last.job.skills)
    /\ \A id \in DOMAIN jobs : NoDuplicateSkills(jobs[id].skills)
    /\ \A r \in BagToSet(job_skills) : CopiesIn(r, job_skills) <= 1

\* C16: a JobRecord keeps its id through persistence: get_job(x) returns a
\* record whose id is x, every record returned by search or get_all_jobs carries
\* the id of the row it was read from, and from_dict(to_dict(r)) has r's id.
C16_IdKept ==
    /\ (last.op = "get_job" /\ last.ret # None) => last.ret[1].id = last.job_id
    /\ last.op = "search_jobs" =>
          \A i \in DOMAIN last.ret :
              \E k \in DOMAIN last.rows :
                  /\ last.ret[i].id = last.rows[k]
                  /\ last.ret[i] = [jobs[last.rows[k]] EXCEPT
                                       !.remote = (jobs[last.rows[k]].remote = 1)]
    /\ last.op = "from_dict" => last.ret.id = last.job.id

\* C17: every operation of the job store opens its own connection and closes
\* it before it returns or raises: while an operation runs exactly one
\* connection is open, and after any sequence of operations, failed ones
\* included, none is.
C17_ConnectionsClosed ==
    IF last.op = "with" THEN last.open = 1 ELSE last.open = 0

\* an insert has raised an exception that insert_job does not catch, after its
\* connection was opened
C17_Witness ==
    /\ last.op = "insert_job"
    /\ last.raises = "AttributeError"
    /\ last.open = 0

\* the columns of a record as a frame row, whatever id the row carries
FrameRow(job) == [dataframe_row(job) EXCEPT !.id = GeneratedId]

\* the rows of a frame as a bag
FrameBag(df) ==
    LET rows == {df[k] : k \in DOMAIN df}
    IN  [r \in rows |-> Cardinality({k \in DOMAIN df : df[k] = r})]

\* the analytics queries
AnalyticsOps == {"get_remote_stats", "get_salary_by_experience", "generate_market_report"}

\* C18: the analytics queries are pure reads of the current store.  A query
\* leaves jobs and job_skills unchanged; two calls of a query with no write in
\* between end alike (the same exception, or equal results, the frame rows in
\* any order); and the report made right after a write reflects it: after an
\* insert that returned True the total is one more than before the insert and
\* the frame holds the inserted record, after a clear no report shows a record.
C18_PureReads ==
    [][last'.op \in AnalyticsOps =>
          /\ UNCHANGED <<jobs, job_skills, collection>>
          /\ last.op = last'.op =>
                /\ last'.raises = last.raises
                /\ (last.raises = "none" /\ last.op # "generate_market_report") =>
                      last'.ret = last.ret
                /\ (last.raises = "none" /\ last.op = "generate_market_report") =>
                      /\ [last'.ret EXCEPT !.dataframe = <<>>]
                         = [last.ret EXCEPT !.dataframe = <<>>]
                      /\ FrameBag(last'.ret.dataframe) = FrameBag(last.ret.dataframe)
          /\ (/\ last.op = "insert_job"
              /\ last.ret = <<TRUE>>
              /\ last'.op = "generate_market_report"
              /\ last'.raises = "none") =>
                /\ last'.ret.total_jobs = last.njobs + 1
                /\ Len(last'.ret.dataframe) = last.njobs + 1
                /\ \E k \in DOMAIN last'.ret.dataframe :
                      last'.ret.dataframe[k] = FrameRow(last.job)
          /\ (last.op = "clear_all" /\ last'.op = "generate_market_report") =>
                last'.raises # "none"
      ]_vars

\* a report was made right after a second record was inserted
C18_Witness ==
    /\ last.op = "generate_market_report"
    /\ last.raises = "none"
    /\ last.ret.total_jobs = 2
    /\ Len(last.ret.dataframe) = 2
    /\ last.ret.dataframe[1] # last.ret.dataframe[2]

\* everything a run has gathered so far
Gathered(run) == run.all_jobs \o run.jobs

\* a step of a run that makes a request
IsFetch == last.op = "collect_all" /\ ~last.done /\ last'.op = "collect_all"
              /\ Len(last'.requests) = Len(last.requests) + 1

\* C19 as stated: after a fetch of a source fails, no request is repeated and
\* no further category or page of that source is requested in the run.
C19_SourceAborted ==
    last.op = "collect_all" =>
        \A i, j \in DOMAIN last.requests :
            (i < j /\ last.requests[i].raises # "none") =>
                last.requests[j].source # last.requests[i].source

\* C19: when a fetch fails, that category or page is given up and nothing
\* else: no request is made twice in a run, the step raises nothing, the
\* records gathered so far are kept, the run goes on with the next category
\* or page of the same source (with the next source after the last one), and
\* the stores are not touched.
C19_FetchFailureSkipsOne ==
    [][IsFetch =>
          /\ UNCHANGED <<jobs, job_skills, collection>>
          /\ \A i, j \in DOMAIN last'.requests :
                (/\ last'.requests[i].source = last'.requests[j].source
                 /\ last'.requests[i].at = last'.requests[j].at) => i = j
          /\ last'.requests[Len(last'.requests)].raises # "none" =>
                /\ last'.raises = "none"
                /\ Gathered(last') = Gathered(last)
                /\ last.at < slots(collectors[last.collector]) =>
                      /\ ~last'.done
                      /\ last'.collector = last.collector
                      /\ last'.at = last.at + 1
                /\ (/\ last.at = slots(collectors[last.collector])
                    /\ last.collector < Len(collectors)) =>
                      /\ ~last'.done
                      /\ last'.collector = last.collector + 1
                      /\ last'.at = 1
                /\ (/\ last.at = slots(collectors[last.collector])
                    /\ last.collector = Len(collectors)) =>
                      /\ last'.done
                      /\ last'.ret = <<Gathered(last)>>
      ]_vars

\* a run returned records of a category fetched after a failed fetch of the
\* same source, with a record in the store
C19_Witness ==
    /\ last.op = "collect_all"
    /\ last.done
    /\ last.raises = "none"
    /\ DOMAIN jobs # {}
    /\ Len(last.requests) >= 2
    /\ last.requests[1].source = "remotive"
    /\ last.requests[1].raises = RequestException
    /\ last.requests[2].source = "remotive"
    /\ last.requests[2].raises = "none"
    /\ last.ret # None
    /\ \E k \in DOMAIN last.ret[1] : last.ret[1][k].source = "remotive"

\* C20: a response read by either collector raises nothing, and every
\* well-formed posting in it is yielded.
C20_MalformedOnlySkipped ==
    [][(IsFetch /\ last'.requests[Len(last'.requests)].raises = "none") =>
          /\ last'.raises = "none"
          /\ Len(Gathered(last')) >= Len(Gathered(last)) + last'.well_formed
      ]_vars

\* the rows the WHERE clause of the last search keeps
SearchMatches ==
    {id \in DOMAIN jobs :
        where_clause(jobs[id], last.query, last.company, last.location,
                     last.experience_level, last.remote_only, last.min_salary)}

\* a stored record has one of the requested skills, whatever the case
HasRequestedSkill(id, wanted) ==
    \E i \in DOMAIN wanted, k \in DOMAIN jobs[id].skills :
        lower(wanted[i]) = lower(jobs[id].skills[k])

\* C21: search_jobs cuts at limit before the skills post-filter.  The rows
\* read are the limit most recently scraped rows matching the other filters,
\* most recent first; the result is exactly those of them that have a
\* requested skill (all of them when no skill is requested), in the same
\* order; so it never holds more than limit records.
C21_LimitBeforeSkills ==
    last.op = "search_jobs" =>
        LET rows == last.rows
            wanted == IF last.skills = None THEN <<>> ELSE last.skills[1]
            kept == IF wanted = <<>> THEN rows
                    ELSE SelectSeq(rows, LAMBDA id : HasRequestedSkill(id, wanted))
        IN  /\ Len(rows) = IF Cardinality(SearchMatches) < last.limit
                           THEN Cardinality(SearchMatches) ELSE last.limit
            /\ \A k \in DOMAIN rows : rows[k] \in SearchMatches
            /\ \A i, j \in DOMAIN rows : i < j =>
                   /\ rows[i] # rows[j]
                   /\ jobs[rows[i]].scraped_at >= jobs[rows[j]].scraped_at
            /\ \A k \in DOMAIN rows : \A id \in SearchMatches :
                   jobs[id].scraped_at > jobs[rows[k]].scraped_at =>
                       \E i \in DOMAIN rows : rows[i] = id
            /\ Len(last.ret) <= last.limit
            /\ last.ret = [k \in DOMAIN kept |-> row_to_job(jobs[kept[k]])]

\* a search for a skill came back empty, cut at limit 1, while an older row
\* with that skill, spelt in another case, is in the store
C21_Witness ==
    /\ last.op = "search_jobs"
    /\ last.skills = <<(<<python>>)>>
    /\ last.limit = 1
    /\ Len(last.rows) = 1
    /\ last.ret = <<>>
    /\ \E id \in SearchMatches : HasRequestedSkill(id, last.skills[1])

\* the ids of the records of a list
IdsOf(jobs_list) == {jobs_list[k].id : k \in DOMAIN jobs_list}

\* C22: within one add_jobs call, for any list and any index state, each id
\* is handed to the collection at most once and never when it was indexed
\* before the call; added is the number of distinct ids of the list that were
\* not indexed before; added + skipped is the length of the list.
C22_AddManyCounts ==
    last.op = "add_jobs" =>
        /\ \A i, j \in DOMAIN last.handed : last.handed[i] = last.handed[j] => i = j
        /\ \A i \in DOMAIN last.handed : last.handed[i] \notin last.ids_before
        /\ last.added = Cardinality(IdsOf(last.jobs) \ last.ids_before)
        /\ last.added + last.skipped = Len(last.jobs)
        /\ DOMAIN collection = last.ids_before \cup IdsOf(last.jobs)

\* a list repeating an id was added one record per batch, another id being
\* indexed already
C22_Witness ==
    /\ last.op = "add_jobs"
    /\ last.batch_size = 1
    /\ Len(last.jobs) = 2
    /\ last.jobs[1].id = last.jobs[2].id
    /\ last.ids_before # {}
    /\ last.added = 1
    /\ last.skipped = 1

\* C23: find_similar_jobs(id, n) returns at most n results and never the
\* record id itself, whatever else is indexed; for an id that is not indexed
\* it returns the empty list.
C23_FindSimilarExcludesSelf ==
    last.op = "find_similar_jobs" =>
        /\ Len(last.ret) <= last.n_results
        /\ \A i \in DOMAIN last.ret : last.ret[i].id # last.job_id
        /\ last.job_id \notin DOMAIN collection => last.ret = <<>>

\* no stored title has the role in it, whatever the case
RoleUnmatched(role) ==
    \A id \in DOMAIN jobs : ~contains(lower(jobs[id].title), lower(role))

\* C24: get_role_comparison raises nothing in any store state, the empty one
\* included, and for a role that occurs in no stored title its entry holds the
\* role name and count 0 and nothing else.
C24_RoleComparisonZero ==
    last.op = "get_role_comparison" =>
        /\ last.raises = "none"
        /\ RoleUnmatched(last.role1) =>
              last.ret.role1 = [role |-> last.role1, count |-> 0]
        /\ RoleUnmatched(last.role2) =>
              last.ret.role2 = [role |-> last.role2, count |-> 0]

\* C24 in a store that holds a record
C24_RoleComparisonZeroStored ==
    (last.op = "get_role_comparison" /\ DOMAIN jobs # {}) => C24_RoleComparisonZero

\* the stored records that have a salary ceiling and the skill
Contributing(skill) ==
    {id \in DOMAIN jobs :
        jobs[id].salary_max # None /\ in_list(skill, jobs[id].skills)}

\* the skills on stored records
StoredSkills == UNION {{jobs[id].skills[k] : k \in DOMAIN jobs[id].skills} : id \in DOMAIN jobs}

\* C25: get_skill_salary_correlation raises nothing; its entries are skills
\* with at least 5 contributing records (records with a salary ceiling and the
\* skill), each with the rounded mean of (salary_min + salary_max) / 2 over
\* those records; at most 15 entries, in descending order of mean; and while
\* fewer than 15 skills qualify, every qualifying skill has an entry.
C25_SkillSalaryCorrelation ==
    last.op = "get_skill_salary_correlation" =>
        /\ last.raises = "none"
        /\ Len(last.ret) <= 15
        /\ \A i \in DOMAIN last.ret :
              LET G == Contributing(last.ret[i].skill)
              IN  /\ Cardinality(G) >= 5
                  /\ last.ret[i].mean # NaN
                  /\ last.ret[i].mean[1] =
                        py_round([num |-> sum_over([id \in G |-> jobs[id].salary_min[1]
                                                             + jobs[id].salary_max[1]], G),
                                  den |-> 2 * Cardinality(G)])
        /\ \A i, j \in DOMAIN last.ret : i < j =>
              /\ last.ret[i].skill # last.ret[j].skill
              /\ last.ret[i].mean[1] >= last.ret[j].mean[1]
        /\ Cardinality({x \in StoredSkills : Cardinality(Contributing(x)) >= 5}) <= 15 =>
              \A x \in StoredSkills : Cardinality(Contributing(x)) >= 5 =>
                  \E i \in DOMAIN last.ret : last.ret[i].skill = x

\* C25 in a store where every record has a salary ceiling
C25_AllWithCeiling ==
    (\A id \in DOMAIN jobs : jobs[id].salary_max # None) => C25_SkillSalaryCorrelation

\* C26: referential integrity of the two tables.  Whatever inserts (failing
\* ones and repeats included), insert_many calls and clears came before, every
\* job_skills row belongs to a row of jobs, and every jobs row has as many
\* job_skills rows as its stored skills list has entries.
C26_ReferentialIntegrity ==
    /\ \A r \in BagToSet(job_skills) : r.job_id \in DOMAIN jobs
    /\ \A id \in DOMAIN jobs : skill_row_count(id) = Len(jobs[id].skills)

\* insert_many stopped at the second skill row of its second record while a
\* record with skill rows stays stored
C26_Witness ==
    /\ last.op = "insert_many"
    /\ last.raises # "none"
    /\ last.stopped_at = 2
    /\ last.fault.fail = 3
    /\ DOMAIN jobs = {"b2"}
    /\ BagCardinality(job_skills) = 1

\* C27: a failed insert_job leaves the store unchanged.  When a statement of
\* the insert raises (after the main row was written too), jobs and job_skills
\* are as before, so a record that was new has no row and no skill row; and the
\* same record inserted next, without a fault, is inserted as new: True is
\* returned and its row and skill rows are there.
C27_FailedInsertNoTrace ==
    [][/\ (last'.op = "insert_job" /\ last'.fail # 0) =>
              /\ UNCHANGED <<jobs, job_skills>>
              /\ ~last'.present =>
                    /\ last'.job.id \notin DOMAIN jobs'
                    /\ SkillRowsIn(job_skills', last'.job.id) = 0
       /\ (/\ last.op = "insert_job" /\ last.fail # 0 /\ ~last.present
           /\ last'.op = "insert_job" /\ last'.fail = 0 /\ last'.job = last.job) =>
              /\ last'.ret = <<TRUE>>
              /\ last'.job.id \in DOMAIN jobs'
              /\ jobs'[last'.job.id] = job_to_row(last'.job)
              /\ SkillRowsIn(job_skills', last'.job.id) = Len(last'.job.skills)
      ]_vars

\* the storage layer raised at the second skill row of a new record, and
\* nothing of the record is in the store
C27_Witness ==
    /\ last.op = "insert_job"
    /\ ~last.present
    /\ last.fail = 3
    /\ Len(last.job.skills) = 2
    /\ last.job.id \notin DOMAIN jobs
    /\ skill_row_count(last.job.id) = 0

\* C28: get_stats() raises nothing in any store state and returns every
\* entry; the remote and on-site counts are numbers, 0 with no record stored,
\* and their sum is the total count.
C28_StatsComplete ==
    last.op = "get_stats" =>
        /\ last.raises = "none"
        /\ last.ret.remote_distribution.remote # None
        /\ last.ret.remote_distribution.on_site # None
        /\ last.ret.remote_distribution.remote[1]
           + last.ret.remote_distribution.on_site[1] = last.ret.total_jobs
        /\ last.ret.total_jobs = Cardinality(DOMAIN jobs)

\* C28 in a store that holds a record and where every record with salary_min
\* has salary_max too
C28_StatsCompleteSalaried ==
    (/\ DOMAIN jobs # {}
     /\ \A id \in DOMAIN jobs : jobs[id].salary_min # None => jobs[id].salary_max # None)
        => C28_StatsComplete

\* the indexed documents that satisfy the filters of the last search
Satisfying ==
    {id \in DOMAIN collection :
        /\ (last.experience_level # None /\ last.experience_level # <<"">>) =>
               collection[id].metadata.experience_level = last.experience_level[1]
        /\ last.remote_only => collection[id].metadata.remote = "True"
        /\ collection[id].metadata.salary_min >= last.min_salary[1]}

\* C29: search with a salary floor is complete up to n: it returns min(n, m)
\* results, m being the number of indexed documents that satisfy the level,
\* remote and floor filters; the results are such documents, each once, in
\* ascending order of distance.
C29_SearchComplete ==
    (last.op = "search" /\ last.min_salary # None) =>
        /\ Len(last.ret) = IF Cardinality(Satisfying) < last.n_results
                           THEN Cardinality(Satisfying) ELSE last.n_results
        /\ \A i \in DOMAIN last.ret : last.ret[i].id \in Satisfying
        /\ \A i, j \in DOMAIN last.ret : i < j =>
              /\ last.ret[i].id # last.ret[j].id
              /\ DistanceOf(last.ret[i].id) <= DistanceOf(last.ret[j].id)

\* C29 when the index holds at most 2 * n documents passing the level and
\* remote filters, so that all of them are among the candidates
C29_SearchCompleteSmallIndex ==
    (/\ last.op = "search"
     /\ last.min_salary # None
     /\ \A id \in DOMAIN collection :
           where_matches(collection[id].metadata,
                         where_conditions(last.experience_level, last.remote_only))
               => \E k \in DOMAIN last.candidates : last.candidates[k].id = id)
        => C29_SearchComplete

\* C30: extract_skills_from_description only adds skills: every skill the
\* collector had put on the record (the template's skills, the lowercased
\* tags) is still among the record's skills after the extraction
C30_ExtractionOnlyAdds ==
    [][(last.op = "JobPosting" /\ last'.op = "extract_skills_from_description")
          => \A i \in DOMAIN last.job.skills :
                in_list(last.job.skills[i], last'.job.skills)]_vars

====
